---- MODULE Spec2Model ----
(***************************************************************************)
(* Model of the payment-verification pipeline of josep-prog-lab/payment-app *)
(*   - ml_models/matcher.py               match_transaction                 *)
(*   - ml_models/sms_parser.py            SMSParser.clean_phone             *)
(*   - ml_models/advanced_sms_parser.py   AdvancedSMSParser._normalize_phone*)
(*   - ml_models/fraud_detector_clean.py  SimpleFraudDetector               *)
(*                                                                         *)
(* Strings are sequences of one-character strings.  Python floats are      *)
(* IEEE-754 binary64 values, modelled exactly (53-bit significand, round   *)
(* to nearest, ties to even) on top of a small multi-limb natural number   *)
(* arithmetic, because TLC's integers are 32 bits wide.                    *)
(***************************************************************************)
EXTENDS Integers, Sequences, FiniteSets, TLC

(***************************************************************************)
(* Multi-limb naturals: a sequence of limbs, least significant first.      *)
(***************************************************************************)
LimbBits == 15
LimbBase == 2 ^ LimbBits

MaxInt(a, b) == IF a >= b THEN a ELSE b
MinInt(a, b) == IF a <= b THEN a ELSE b

Limb(a, i) == IF i >= 1 /\ i <= Len(a) THEN a[i] ELSE 0

RECURSIVE BNorm(_)
BNorm(a) ==
  IF a = <<>> THEN <<>>
  ELSE IF a[Len(a)] = 0 THEN BNorm(SubSeq(a, 1, Len(a) - 1))
  ELSE a

RECURSIVE BFromNat(_)
BFromNat(n) ==
  IF n = 0 THEN <<>> ELSE <<n % LimbBase>> \o BFromNat(n \div LimbBase)

RECURSIVE BAddC(_, _, _, _)
BAddC(a, b, i, c) ==
  IF i > MaxInt(Len(a), Len(b))
  THEN (IF c = 0 THEN <<>> ELSE <<c>>)
  ELSE LET s == Limb(a, i) + Limb(b, i) + c
       IN  <<s % LimbBase>> \o BAddC(a, b, i + 1, s \div LimbBase)

BAdd(a, b) == BAddC(a, b, 1, 0)

\* a - b for a >= b
RECURSIVE BSubC(_, _, _, _)
BSubC(a, b, i, c) ==
  IF i > Len(a) THEN <<>>
  ELSE LET s == Limb(a, i) - Limb(b, i) - c
       IN  IF s < 0 THEN <<s + LimbBase>> \o BSubC(a, b, i + 1, 1)
           ELSE <<s>> \o BSubC(a, b, i + 1, 0)

BSub(a, b) == BNorm(BSubC(a, b, 1, 0))

\* -1, 0, 1 as a < b, a = b, a > b
RECURSIVE BCmpAt(_, _, _)
BCmpAt(a, b, i) ==
  IF i = 0 THEN 0
  ELSE IF Limb(a, i) < Limb(b, i) THEN -1
  ELSE IF Limb(a, i) > Limb(b, i) THEN 1
  ELSE BCmpAt(a, b, i - 1)

BCmp(a, b) == BCmpAt(a, b, MaxInt(Len(a), Len(b)))

RECURSIVE BMulSmallC(_, _, _, _)
BMulSmallC(a, k, i, c) ==
  IF i > Len(a) THEN (IF c = 0 THEN <<>> ELSE <<c>>)
  ELSE LET s == a[i] * k + c
       IN  <<s % LimbBase>> \o BMulSmallC(a, k, i + 1, s \div LimbBase)

BMulSmall(a, k) == BMulSmallC(a, k, 1, 0)

Zeros(n) == [i \in 1..n |-> 0]

RECURSIVE BMulAt(_, _, _)
BMulAt(a, b, i) ==
  IF i > Len(b) THEN <<>>
  ELSE BAdd(Zeros(i - 1) \o BMulSmall(a, b[i]), BMulAt(a, b, i + 1))

BMul(a, b) == BNorm(BMulAt(a, b, 1))

BShl(a, n) ==
  IF a = <<>> THEN <<>>
  ELSE Zeros(n \div LimbBits) \o BMulSmall(a, 2 ^ (n % LimbBits))

\* floor(a / 2^n)
BShr(a, n) ==
  LET k == n \div LimbBits
      r == n % LimbBits
      d == IF k >= Len(a) THEN <<>> ELSE SubSeq(a, k + 1, Len(a))
  IN  BNorm([i \in 1..Len(d) |->
               (d[i] \div (2 ^ r)) + (Limb(d, i + 1) % (2 ^ r)) * (2 ^ (LimbBits - r))])

BBit(a, k) == (Limb(a, (k \div LimbBits) + 1) \div (2 ^ (k % LimbBits))) % 2

\* a mod 2^n # 0
BLowNonZero(a, n) ==
  LET k == n \div LimbBits
      r == n % LimbBits
  IN  \/ \E i \in 1..MinInt(k, Len(a)) : a[i] # 0
      \/ Limb(a, k + 1) % (2 ^ r) # 0

RECURSIVE NatBitLen(_)
NatBitLen(n) == IF n = 0 THEN 0 ELSE 1 + NatBitLen(n \div 2)

BBitLen(a) ==
  LET n == BNorm(a)
  IN  IF n = <<>> THEN 0
      ELSE LimbBits * (Len(n) - 1) + NatBitLen(n[Len(n)])

(***************************************************************************)
(* binary64: [s, e, m] stands for (-1)^s * m * 2^e, with m = <<>> (zero,   *)
(* s = 0, e = 0) or 2^52 <= m < 2^53.  Subnormals, infinities and NaN are  *)
(* out of the range of the values the modelled code computes.              *)
(***************************************************************************)
Precision == 53

FZero == [s |-> 0, e |-> 0, m |-> <<>>]

\* a rounded significand q1 of at most Precision + 1 bits, packed
Pack(s, q1, e) ==
  IF BBitLen(q1) > Precision
  THEN [s |-> s, e |-> e + 1, m |-> BShr(q1, 1)]
  ELSE [s |-> s, e |-> e, m |-> q1]

\* n has len bits
RoundAt(s, n, e, sticky, len) ==
  IF len = 0 THEN FZero
  ELSE IF len <= Precision
  THEN [s |-> s, e |-> e - (Precision - len), m |-> BNorm(BShl(n, Precision - len))]
  ELSE Pack(s,
            IF /\ BBit(n, len - Precision - 1) = 1
               /\ \/ sticky
                  \/ BLowNonZero(n, len - Precision - 1)
                  \/ BBit(n, len - Precision) = 1
            THEN BNorm(BAdd(BShr(n, len - Precision), <<1>>))
            ELSE BShr(n, len - Precision),
            e + (len - Precision))

\* round (-1)^s * (n + t) * 2^e, 0 <= t < 1, t # 0 iff sticky, to nearest, ties
\* to even
RoundPack(s, n, e, sticky) == RoundAt(s, n, e, sticky, BBitLen(n))

\* float(n) for an int n
FromInt(n) ==
  RoundPack(IF n >= 0 THEN 0 ELSE 1, BFromNat(IF n >= 0 THEN n ELSE -n), 0, FALSE)

FNeg(a) == IF a.m = <<>> THEN a ELSE [a EXCEPT !.s = 1 - a.s]
FAbs(a) == [a EXCEPT !.s = 0]

\* a * b
FMul(a, b) ==
  IF a.m = <<>> \/ b.m = <<>> THEN FZero
  ELSE RoundPack((a.s + b.s) % 2, BMul(a.m, b.m), a.e + b.e, FALSE)

\* x * 2^e and y * 2^e are the magnitudes of a and b; c compares x and y
AddAligned(a, b, e, x, y, c) ==
  RoundPack(IF a.s = b.s \/ c > 0 THEN a.s ELSE b.s,
            IF a.s = b.s THEN BAdd(x, y) ELSE IF c > 0 THEN BSub(x, y) ELSE BSub(y, x),
            e, FALSE)

AddAt(a, b, e) ==
  AddAligned(a, b, e, BShl(a.m, a.e - e), BShl(b.m, b.e - e),
             BCmp(BShl(a.m, a.e - e), BShl(b.m, b.e - e)))

\* a + b
FAdd(a, b) ==
  IF a.m = <<>> THEN b
  ELSE IF b.m = <<>> THEN a
  ELSE AddAt(a, b, MinInt(a.e, b.e))

\* a - b
FSub(a, b) == FAdd(a, FNeg(b))

\* the largest digit q <= qh with q * d <= r
RECURSIVE DigitFix(_, _, _)
DigitFix(qh, r, d) ==
  IF BCmp(BMulSmall(d, qh), r) > 0 THEN DigitFix(qh - 1, r, d) ELSE qh

RECURSIVE DivLimbs(_, _, _, _)
DivDigit(q, r1, d, k, qd) ==
  DivLimbs(<<qd>> \o q, BSub(r1, BMulSmall(d, qd)), d, k - 1)

DivStep(q, r1, d, k) ==
  DivDigit(q, r1, d, k,
           DigitFix(MinInt((Limb(r1, 5) * LimbBase + Limb(r1, 4)) \div d[4],
                           LimbBase - 1), r1, d))

\* long division in base LimbBase, k more quotient limbs; d holds 4 limbs with
\* the top one >= LimbBase / 2, and r < d
DivLimbs(q, r, d, k) ==
  IF k = 0 THEN <<q, r>>
  ELSE DivStep(q, IF r = <<>> THEN <<>> ELSE <<0>> \o r, d, k)

DivPack(s, e, qr) == RoundPack(s, BNorm(qr[1]), e, qr[2] # <<>>)

DivScaled(s, e, n, d, ge) ==
  DivPack(s, e, DivLimbs(IF ge THEN <<1>> ELSE <<>>,
                         IF ge THEN BSub(n, d) ELSE n, d, 4))

DivMant(s, e, n, d) == DivScaled(s, e, n, d, BCmp(n, d) >= 0)

\* a / b for b # 0
FDiv(a, b) ==
  IF a.m = <<>> THEN FZero
  ELSE DivMant((a.s + b.s) % 2, a.e - b.e - 4 * LimbBits,
               BShl(a.m, 4 * LimbBits - Precision),
               BShl(b.m, 4 * LimbBits - Precision))

\* -1, 0, 1 as |a| < |b|, |a| = |b|, |a| > |b|
FCmpAbs(a, b) ==
  IF a.m = <<>> /\ b.m = <<>> THEN 0
  ELSE IF a.m = <<>> THEN -1
  ELSE IF b.m = <<>> THEN 1
  ELSE IF a.e < b.e THEN -1
  ELSE IF a.e > b.e THEN 1
  ELSE BCmp(a.m, b.m)

\* -1, 0, 1 as a < b, a = b, a > b
FCmp(a, b) ==
  IF a.s = 0 /\ b.s = 0 THEN FCmpAbs(a, b)
  ELSE IF a.s = 1 /\ b.s = 1 THEN FCmpAbs(b, a)
  ELSE IF a.s = 1 THEN -1
  ELSE 1

FLt(a, b) == FCmp(a, b) < 0
FLe(a, b) == FCmp(a, b) <= 0
FGt(a, b) == FCmp(a, b) > 0
FGe(a, b) == FCmp(a, b) >= 0

\* Python's max / min: the first argument wins a tie
FMax(a, b) == IF FGt(b, a) THEN b ELSE a
FMin(a, b) == IF FLt(b, a) THEN b ELSE a

\* the float the decimal literal n/10 denotes (0.6, 0.3, ...)
Tenths(n) == FDiv(FromInt(n), FromInt(10))

(***************************************************************************)
(* Strings and Python values.  A dictionary entry is a tagged value: "str" *)
(* (a string, in s), "num" (a number, in n), "none" (None) or "absent" (no *)
(* such key).                                                              *)
(***************************************************************************)
Digits == {"0", "1", "2", "3", "4", "5", "6", "7", "8", "9"}
UpperCase == <<"A", "B", "C", "D", "E", "F", "G", "H", "I", "J", "K", "L", "M",
               "N", "O", "P", "Q", "R", "S", "T", "U", "V", "W", "X", "Y", "Z">>
LowerCase == <<"a", "b", "c", "d", "e", "f", "g", "h", "i", "j", "k", "l", "m",
               "n", "o", "p", "q", "r", "s", "t", "u", "v", "w", "x", "y", "z">>

LowerChar(c) ==
  IF \E i \in 1..Len(UpperCase) : UpperCase[i] = c
  THEN LowerCase[CHOOSE i \in 1..Len(UpperCase) : UpperCase[i] = c]
  ELSE c

\* str.lower()
Lower(s) == [i \in 1..Len(s) |-> LowerChar(s[i])]

\* str.startswith(prefix)
StartsWith(s, prefix) ==
  Len(s) >= Len(prefix) /\ SubSeq(s, 1, Len(prefix)) = prefix

IsDigit(c) == c \in Digits
DigitsOrPlus == Digits \cup {"+"}

\* re.sub(r'[^...]', '', s): s without the characters outside chars
RECURSIVE Keep(_, _)
Keep(s, chars) ==
  IF s = <<>> THEN <<>>
  ELSE (IF Head(s) \in chars THEN <<Head(s)>> ELSE <<>>) \o Keep(Tail(s), chars)

Str(s) == [k |-> "str", s |-> s, n |-> 0]
Num(n) == [k |-> "num", s |-> <<>>, n |-> n]
NoneV == [k |-> "none", s |-> <<>>, n |-> 0]
AbsentV == [k |-> "absent", s |-> <<>>, n |-> 0]

\* dict.get(key, default): the default stands in for an absent key only
Get(field, default) == IF field.k = "absent" THEN default ELSE field

(***************************************************************************)
(* ml_models/matcher.py                                                    *)
(***************************************************************************)
Min3(x, y, z) == MinInt(x, MinInt(y, z))

\* the inner loop of levenshtein_distance: one row
RECURSIVE LevCur(_, _, _, _, _)
LevCur(prev, cur, c1, b, j) ==
  IF j > Len(b) THEN cur
  ELSE LET insertions    == prev[j + 1] + 1
           deletions     == cur[j] + 1
           substitutions == prev[j] + (IF c1 # b[j] THEN 1 ELSE 0)
           next          == Append(cur, Min3(insertions, deletions, substitutions))
       IN  IF Len(next) > j THEN LevCur(prev, next, c1, b, j + 1) ELSE next

\* the outer loop of levenshtein_distance
RECURSIVE LevRows(_, _, _, _)
LevRows(prev, a, b, i) ==
  IF i > Len(a) THEN prev
  ELSE LET current_row == LevCur(prev, <<i>>, a[i], b, 1)
       IN  IF Len(current_row) > 0 THEN LevRows(current_row, a, b, i + 1)
           ELSE current_row

RECURSIVE levenshtein_distance(_, _)
levenshtein_distance(a, b) ==
  IF Len(a) < Len(b) THEN levenshtein_distance(b, a)
  ELSE IF Len(b) = 0 THEN Len(a)
  ELSE LevRows([j \in 1..(Len(b) + 1) |-> j - 1], a, b, 1)[Len(b) + 1]

\* the phone clean-up match_transaction applies to both phones
MatcherCleanPhone(phone) ==
  LET digits == Keep(phone, Digits)
  IN  IF StartsWith(digits, <<"0">>) THEN <<"2", "5", "0">> \o Tail(digits)
      ELSE IF StartsWith(digits, <<"+", "2", "5", "0">>) THEN Tail(digits)
      ELSE digits

W_TXID == Tenths(6)
W_PHONE == Tenths(3)
W_AMOUNT == Tenths(1)
NEUTRAL_AMOUNT == Tenths(5)
SUGGEST_THRESHOLD == Tenths(5)
FOne == FromInt(1)

Raise(exc) == [raise |-> TRUE, exc |-> exc, score |-> FZero]
Scored(x) == [raise |-> FALSE, exc |-> "", score |-> x]

\* Python truthiness of customer_amount
Truthy(amount) == amount.k = "num" /\ amount.n # 0

txid_sim(customer_txid, ptxid) ==
  FSub(FOne,
       FDiv(FromInt(levenshtein_distance(Lower(customer_txid), Lower(ptxid))),
            FromInt(MaxInt(MaxInt(Len(customer_txid), Len(ptxid)), 1))))

amount_sim(customer_amount, payment) ==
  IF Truthy(customer_amount)
  THEN LET c    == FromInt(customer_amount.n)
           diff == FAbs(FSub(c, FromInt(Get(payment.amount, Num(0)).n)))
           den  == FMax(FMax(c, FromInt(Get(payment.amount, Num(1)).n)), FOne)
       IN  FSub(FOne, FDiv(diff, den))
  ELSE NEUTRAL_AMOUNT

\* one iteration of the loop of match_transaction, up to combined_score;
\* customer_phone is the cleaned customer phone
combined_score(customer_txid, customer_phone, customer_amount, payment) ==
  LET sender == Get(payment.sender_number, Str(<<>>))
      ptxid  == Get(payment.txid, Str(<<>>))
  IN  IF sender.k # "str" THEN Raise("TypeError")
      ELSE IF ptxid.k # "str" THEN Raise("AttributeError")
      ELSE IF Truthy(customer_amount) /\ Get(payment.amount, Num(0)).k # "num"
      THEN Raise("TypeError")
      ELSE LET payment_phone == MatcherCleanPhone(sender.s)
               phone_sim == IF customer_phone = payment_phone THEN FOne ELSE FZero
           IN  Scored(FAdd(FAdd(FMul(txid_sim(customer_txid, ptxid.s), W_TXID),
                                FMul(phone_sim, W_PHONE)),
                           FMul(amount_sim(customer_amount, payment), W_AMOUNT)))

(***************************************************************************)
(* The inputs of the model: claims as the verify handlers receive them and *)
(* payment records as the store returns them.                              *)
(***************************************************************************)
MaxPool == 4

TX_STORED == <<"T", "X", "1", "2", "3", "4", "5", "6", "7", "8", "9">>
TX_ONE_EDIT == <<"T", "X", "1", "2", "3", "4", "5", "6", "7", "8", "X">>
TX_LOWER == <<"t", "x", "1", "2", "3", "4", "5", "6", "7", "8", "9">>
PHONE_INTL == <<"+", "2", "5", "0", "7", "8", "8", "1", "2", "3", "4", "5", "6">>
PHONE_LOCAL == <<"0", "7", "8", "8", "1", "2", "3", "4", "5", "6">>
PHONE_OTHER == <<"0", "7", "2", "2", "0", "0", "0", "1", "1", "1">>

Payment(txid, sender, amount, ts) ==
  [id |-> 0, txid |-> txid, sender_number |-> sender, amount |-> amount,
   timestamp |-> ts]

PaymentKinds ==
  { Payment(Str(TX_STORED), Str(PHONE_INTL), Num(5000), Num(1)),
    Payment(Str(TX_ONE_EDIT), Str(PHONE_LOCAL), Num(10000), Num(2)),
    Payment(Str(TX_STORED), Str(PHONE_LOCAL), Num(5000), Num(3)),
    Payment(AbsentV, AbsentV, AbsentV, AbsentV),
    Payment(NoneV, Str(PHONE_OTHER), NoneV, NoneV) }

Claim(txid, phone, amount) == [txid |-> txid, phone |-> phone, amount |-> amount]

ClaimSet ==
  { Claim(TX_STORED, PHONE_LOCAL, Num(5000)),
    Claim(TX_ONE_EDIT, PHONE_INTL, NoneV),
    Claim(TX_LOWER, PHONE_INTL, Num(0)),
    Claim(TX_STORED, PHONE_OTHER, Num(-1000)) }

\* combined_score of every claim and payment of the model, computed once
ScoreMemo ==
  [c \in ClaimSet, p \in PaymentKinds |->
     combined_score(c.txid, MatcherCleanPhone(c.phone), c.amount, p)]

Memoized(c, p) ==
  IF <<c, p>> \in DOMAIN ScoreMemo THEN ScoreMemo[c, p]
  ELSE combined_score(c.txid, MatcherCleanPhone(c.phone), c.amount, p)
ScoreOf(customer_txid, customer_phone, customer_amount, payment) ==
  Memoized(Claim(customer_txid, customer_phone, customer_amount),
           [payment EXCEPT !.id = 0])

Suggestion(payment, confidence) ==
  [txid |-> payment.txid, amount |-> payment.amount,
   timestamp |-> payment.timestamp, confidence |-> confidence]

\* sorted(suggestions, key=confidence, reverse=True): stable, so entries of
\* equal confidence keep their order
\* InsertDesc with ties broken the other way (an unstable sort)
RECURSIVE InsertDescUnstable(_, _)
InsertDescUnstable(sorted, x) ==
  IF sorted = <<>> THEN <<x>>
  ELSE IF FGt(Head(sorted).confidence, x.confidence)
  THEN <<Head(sorted)>> \o InsertDescUnstable(Tail(sorted), x)
  ELSE <<x>> \o sorted

RECURSIVE InsertDesc(_, _)
InsertDesc(sorted, x) ==
  IF sorted = <<>> THEN <<x>>
  ELSE IF FGe(Head(sorted).confidence, x.confidence)
  THEN <<Head(sorted)>> \o InsertDesc(Tail(sorted), x)
  ELSE <<x>> \o sorted

RECURSIVE SortedDesc(_)
SortedDesc(xs) ==
  IF xs = <<>> THEN <<>>
  ELSE InsertDesc(SortedDesc(SubSeq(xs, 1, Len(xs) - 1)), xs[Len(xs)])

\* xs[:n]
Take(xs, n) == SubSeq(xs, 1, MinInt(n, Len(xs)))

MAX_SUGGESTIONS == 3

RECURSIVE MatchLoop(_, _, _, _, _, _, _, _)
\* one iteration of the loop of match_transaction, from combined_score (r) on
MatchStep(customer_txid, customer_phone, customer_amount, all_payments, i, best_match, best_score, suggestions, payment, r) ==
  IF r.raise
  THEN [kind |-> "raise", exc |-> r.exc, payment |-> NoneV,
        confidence |-> FZero, suggestions |-> <<>>]
  ELSE MatchLoop(customer_txid, customer_phone, customer_amount, all_payments, i + 1,
                 IF FGt(r.score, best_score) THEN payment ELSE best_match,
                 IF FGt(r.score, best_score) THEN r.score ELSE best_score,
                 IF FGt(r.score, SUGGEST_THRESHOLD)
                 THEN Append(suggestions, Suggestion(payment, r.score))
                 ELSE suggestions)

\* the loop of match_transaction from payment i on, and its return
MatchLoop(customer_txid, customer_phone, customer_amount, all_payments, i, best_match, best_score, suggestions) ==
  IF i > Len(all_payments)
  THEN [kind |-> "ok", exc |-> "", payment |-> best_match, confidence |-> best_score,
        suggestions |-> Take(SortedDesc(suggestions), MAX_SUGGESTIONS)]
  ELSE MatchStep(customer_txid, customer_phone, customer_amount, all_payments, i,
                 best_match, best_score, suggestions, all_payments[i],
                 ScoreOf(customer_txid, customer_phone, customer_amount,
                         all_payments[i]))

\* match_transaction with best_score starting at 0 instead of -1
match_transaction_from_zero(customer_txid, customer_phone, customer_amount, all_payments) ==
  MatchLoop(customer_txid, customer_phone, customer_amount, all_payments, 1,
            NoneV, FZero, <<>>)

match_transaction(customer_txid, customer_phone, customer_amount, all_payments) ==
  MatchLoop(customer_txid, customer_phone, customer_amount, all_payments, 1,
            NoneV, FromInt(-1), <<>>)

NoResult == [kind |-> "none", exc |-> "", payment |-> NoneV, confidence |-> FZero,
             suggestions |-> <<>>]

(***************************************************************************)
(* Phone normalizers of the Extractor                                      *)
(***************************************************************************)
\* SMSParser.clean_phone: None for an empty phone or fewer than 9 digits
clean_phone(phone) ==
  IF phone.k # "str" \/ phone.s = <<>> THEN NoneV
  ELSE LET digits_only == Keep(phone.s, Digits)
       IN  IF StartsWith(digits_only, <<"2", "5", "0">>) THEN Str(digits_only)
           ELSE IF StartsWith(digits_only, <<"0">>) /\ Len(digits_only) = 10
           THEN Str(<<"2", "5", "0">> \o Tail(digits_only))
           ELSE IF Len(digits_only) = 9
           THEN Str(<<"2", "5", "0">> \o digits_only)
           ELSE IF Len(digits_only) >= 9 THEN Str(digits_only) ELSE NoneV

\* _normalize_phone that puts a "+" in front of every other phone
_normalize_phone_always_plus(phone) ==
  LET cleaned == Keep(phone, DigitsOrPlus)
  IN  IF StartsWith(cleaned, <<"0">>) THEN <<"+", "2", "5", "0">> \o Tail(cleaned)
      ELSE <<"+">> \o cleaned

\* AdvancedSMSParser._normalize_phone
_normalize_phone(phone) ==
  LET cleaned == Keep(phone, DigitsOrPlus)
  IN  IF StartsWith(cleaned, <<"0">>) THEN <<"+", "2", "5", "0">> \o Tail(cleaned)
      ELSE IF StartsWith(cleaned, <<"2", "5", "0">>) THEN <<"+">> \o cleaned
      ELSE IF ~StartsWith(cleaned, <<"+">>) THEN <<"+">> \o cleaned
      ELSE cleaned

\* the phones fed to the normalizers: up to MaxPrefix prefix pieces in front
\* of a subscriber number
MaxPrefix == 2
MaxApply == 2
PrefixPieces == {<<"0">>, <<"2", "5", "0">>, <<"+">>, <<" ">>}
RECURSIVE Prefixes(_)
Prefixes(n) ==
  IF n = 0 THEN {<<>>}
  ELSE LET shorter == Prefixes(n - 1)
       IN  shorter \cup {piece \o rest : piece \in PrefixPieces, rest \in shorter}
PhoneBodies ==
  {<<>>,
   <<"7", "8", "8", "1", "2", "3", "4", "5">>,
   <<"7", "8", "8", "1", "2", "3", "4", "5", "6">>,
   <<"7", "8", "8", "1", "2", "3", "4", "5", "6", "7">>}
PhoneInputs == {prefix \o body : prefix \in Prefixes(MaxPrefix), body \in PhoneBodies}
Normalizers == {"matcher", "clean_phone", "_normalize_phone"}

(***************************************************************************)
(* SimpleFraudDetector                                                     *)
(***************************************************************************)
\* SimpleFraudDetector.normalize_phone
normalize_phone(phone) ==
  LET cleaned == Keep(phone, DigitsOrPlus)
  IN  IF StartsWith(cleaned, <<"0">>) THEN <<"+", "2", "5", "0">> \o Tail(cleaned)
      ELSE IF StartsWith(cleaned, <<"2", "5", "0">>) THEN <<"+">> \o cleaned
      ELSE IF ~StartsWith(cleaned, <<"+">>) THEN <<"+">> \o cleaned
      ELSE cleaned

\* timestamp.replace('Z', '+00:00')
RECURSIVE ReplaceZ(_)
ReplaceZ(s) ==
  IF s = <<>> THEN <<>>
  ELSE (IF Head(s) = "Z" THEN <<"+", "0", "0", ":", "0", "0">> ELSE <<Head(s)>>)
       \o ReplaceZ(Tail(s))

DigitSeq == <<"0", "1", "2", "3", "4", "5", "6", "7", "8", "9">>
DigitValue(c) == CHOOSE n \in 0..9 : DigitSeq[n + 1] = c
AllDigitsAt(s, from, to) == \A i \in from..to : s[i] \in Digits
\* the number written at s[from..to]
RECURSIVE NumberAt(_, _, _)
NumberAt(s, from, to) ==
  IF to < from THEN 0 ELSE 10 * NumberAt(s, from, to - 1) + DigitValue(s[to])

IsLeap(y) == (y % 4 = 0 /\ y % 100 # 0) \/ y % 400 = 0
DaysInMonth(y, m) ==
  IF m = 2 THEN (IF IsLeap(y) THEN 29 ELSE 28)
  ELSE IF m \in {4, 6, 9, 11} THEN 30 ELSE 31

NoDateTime ==
  [ok |-> FALSE, aware |-> FALSE, year |-> 0, month |-> 0, day |-> 0,
   hour |-> 0, minute |-> 0, second |-> 0]

\* datetime.fromisoformat for YYYY-MM-DD
DateAt(s) ==
  IF /\ AllDigitsAt(s, 1, 4) /\ s[5] = "-" /\ AllDigitsAt(s, 6, 7)
     /\ s[8] = "-" /\ AllDigitsAt(s, 9, 10)
     /\ NumberAt(s, 1, 4) >= 1
     /\ NumberAt(s, 6, 7) \in 1..12
     /\ NumberAt(s, 9, 10) \in 1..DaysInMonth(NumberAt(s, 1, 4), NumberAt(s, 6, 7))
  THEN [NoDateTime EXCEPT !.ok = TRUE, !.year = NumberAt(s, 1, 4),
                          !.month = NumberAt(s, 6, 7), !.day = NumberAt(s, 9, 10)]
  ELSE NoDateTime

\* ... followed by one separator character and HH:MM:SS
TimeAt(s, date) ==
  IF /\ date.ok
     /\ AllDigitsAt(s, 12, 13) /\ s[14] = ":" /\ AllDigitsAt(s, 15, 16)
     /\ s[17] = ":" /\ AllDigitsAt(s, 18, 19)
     /\ NumberAt(s, 12, 13) <= 23
     /\ NumberAt(s, 15, 16) <= 59
     /\ NumberAt(s, 18, 19) <= 59
  THEN [date EXCEPT !.hour = NumberAt(s, 12, 13), !.minute = NumberAt(s, 15, 16),
                    !.second = NumberAt(s, 18, 19)]
  ELSE NoDateTime

\* ... followed by a UTC offset +HH:MM or -HH:MM
OffsetAt(s, time) ==
  IF /\ time.ok
     /\ s[20] \in {"+", "-"}
     /\ AllDigitsAt(s, 21, 22) /\ s[23] = ":" /\ AllDigitsAt(s, 24, 25)
     /\ NumberAt(s, 21, 22) <= 23
     /\ NumberAt(s, 24, 25) <= 59
  THEN [time EXCEPT !.aware = TRUE]
  ELSE NoDateTime

\* datetime.fromisoformat(s): a date, a date and a time of day, or both and a
\* UTC offset; ok is FALSE where it raises ValueError
fromisoformat(s) ==
  IF Len(s) = 10 THEN DateAt(s)
  ELSE IF Len(s) = 19 THEN TimeAt(s, DateAt(SubSeq(s, 1, 10)))
  ELSE IF Len(s) = 25 THEN OffsetAt(s, TimeAt(SubSeq(s, 1, 19), DateAt(SubSeq(s, 1, 10))))
  ELSE NoDateTime

\* days since 1970-01-01 of a civil date
DaysFromCivil(y, m, d) ==
  LET yy  == IF m <= 2 THEN y - 1 ELSE y
      era == yy \div 400
      yoe == yy - era * 400
      doy == (153 * (IF m > 2 THEN m - 3 ELSE m + 9) + 2) \div 5 + d - 1
      doe == yoe * 365 + yoe \div 4 - yoe \div 100 + doy
  IN  era * 146097 + doe - 719468

SecondOfDay(t) == t.hour * 3600 + t.minute * 60 + t.second

\* (a - b).total_seconds() of two naive datetimes
TotalSeconds(a, b) ==
  (DaysFromCivil(a.year, a.month, a.day) - DaysFromCivil(b.year, b.month, b.day))
    * 86400 + SecondOfDay(a) - SecondOfDay(b)

\* Python truthiness of a dict value
TruthyValue(v) == (v.k = "str" /\ v.s # <<>>) \/ (v.k = "num" /\ v.n # 0)
\* d.get(key): None where the key is absent
GetOrNone(field) == Get(field, NoneV)

HasPaymentData(transaction) == transaction.payment_data_kind # "absent"

SEQUENTIAL_PREFIXES ==
  {<<"0", "1", "2">>, <<"1", "2", "3">>, <<"2", "3", "4">>, <<"3", "4", "5">>,
   <<"4", "5", "6">>, <<"5", "6", "7">>, <<"6", "7", "8">>, <<"7", "8", "9">>,
   <<"8", "9", "0">>}

is_suspicious_txid(txid) ==
  IF ~TruthyValue(txid) \/ Len(txid.s) < 6 THEN TRUE
  ELSE IF FGt(FromInt(Cardinality({i \in 1..(Len(txid.s) - 1) :
                                     txid.s[i] = txid.s[i + 1]})),
              FDiv(FromInt(Len(txid.s)), FromInt(3)))
  THEN TRUE
  ELSE \E prefix \in SEQUENTIAL_PREFIXES : StartsWith(txid.s, prefix)

\* the hour test of is_suspicious_timing; a timestamp that does not parse
\* raises inside the try and is swallowed
SuspiciousHour(t) == t.ok /\ (t.hour < 5 \/ t.hour > 23)

is_suspicious_timing(transaction) ==
  IF ~HasPaymentData(transaction) THEN FALSE
  ELSE IF transaction.payment_data_kind # "dict" THEN FALSE
  ELSE IF ~TruthyValue(GetOrNone(transaction.payment_data.timestamp)) THEN FALSE
  ELSE IF transaction.payment_data.timestamp.k # "str" THEN FALSE
  ELSE SuspiciousHour(fromisoformat(ReplaceZ(transaction.payment_data.timestamp.s)))

\* time_diff <= hours for a parsed created_at; subtracting an aware datetime
\* from the naive datetime.now() raises TypeError, which is swallowed
RecentAt(tx_time, hours, now_time) ==
  /\ tx_time.ok
  /\ ~tx_time.aware
  /\ FLe(FDiv(FromInt(TotalSeconds(now_time, tx_time)), FromInt(3600)), FromInt(hours))

\* is_recent_transaction whose except clause answers True
is_recent_transaction_or_error(tx, hours, wall_clock) ==
  IF tx.created_at.k = "absent" THEN FALSE
  ELSE IF tx.created_at.k # "str" THEN TRUE
  ELSE LET tx_time == fromisoformat(ReplaceZ(tx.created_at.s))
       IN  \/ ~tx_time.ok
           \/ tx_time.aware
           \/ RecentAt(tx_time, hours, fromisoformat(wall_clock))

\* wall_clock is what datetime.now() returns during the call
is_recent_transaction(tx, hours, wall_clock) ==
  IF tx.created_at.k = "absent" THEN FALSE
  ELSE IF tx.created_at.k # "str" THEN FALSE
  ELSE RecentAt(fromisoformat(ReplaceZ(tx.created_at.s)), hours,
                fromisoformat(wall_clock))

W_TXID_MISMATCH == Tenths(4)
W_PHONE_MISMATCH == Tenths(3)
W_AMOUNT_MISMATCH == Tenths(5)
W_SUSPICIOUS_TXID == Tenths(3)
W_SUSPICIOUS_TIMING == Tenths(2)
AMOUNT_TOLERANCE == 1000

\* score += w inside an if
AddIf(score, fired, w) == IF fired THEN FAdd(score, w) ELSE score
ListIf(fired, name) == IF fired THEN <<name>> ELSE <<>>

PaymentDataOf(transaction) ==
  IF transaction.payment_data_kind = "dict" THEN transaction.payment_data
  ELSE [txid |-> AbsentV, sender_number |-> AbsentV, amount |-> AbsentV,
        timestamp |-> AbsentV]

TxidMismatch(transaction) ==
  GetOrNone(transaction.txid) # GetOrNone(PaymentDataOf(transaction).txid)

PhoneMismatch(transaction) ==
  normalize_phone(Get(transaction.phone, Str(<<>>)).s)
    # normalize_phone(Get(PaymentDataOf(transaction).sender_number, Str(<<>>)).s)

AmountMismatch(transaction) ==
  /\ transaction.amount.k # "absent"
  /\ HasPaymentData(transaction)
  /\ FGt(FAbs(FSub(FromInt(transaction.amount.n),
                   FromInt(Get(PaymentDataOf(transaction).amount, Num(0)).n))),
         FromInt(AMOUNT_TOLERANCE))

\* the exception rule_based_checks raises on this transaction, "" if none
RuleChecksRaise(transaction) ==
  IF transaction.payment_data_kind = "none" THEN "AttributeError"
  ELSE IF Get(transaction.phone, Str(<<>>)).k # "str" THEN "TypeError"
  ELSE IF Get(PaymentDataOf(transaction).sender_number, Str(<<>>)).k # "str"
  THEN "TypeError"
  ELSE IF /\ transaction.amount.k # "absent"
          /\ HasPaymentData(transaction)
          /\ \/ transaction.amount.k # "num"
             \/ Get(PaymentDataOf(transaction).amount, Num(0)).k # "num"
  THEN "TypeError"
  ELSE ""

RuleViolations(transaction) ==
  ListIf(TxidMismatch(transaction), "txid_mismatch")
    \o ListIf(PhoneMismatch(transaction), "phone_mismatch")
    \o ListIf(AmountMismatch(transaction), "amount_mismatch")
    \o ListIf(is_suspicious_txid(Get(transaction.txid, Str(<<>>))),
              "suspicious_txid_pattern")
    \o ListIf(is_suspicious_timing(transaction), "suspicious_timing")

RuleSum(transaction) ==
  AddIf(AddIf(AddIf(AddIf(AddIf(FZero,
                                TxidMismatch(transaction), W_TXID_MISMATCH),
                          PhoneMismatch(transaction), W_PHONE_MISMATCH),
                    AmountMismatch(transaction), W_AMOUNT_MISMATCH),
              is_suspicious_txid(Get(transaction.txid, Str(<<>>))),
              W_SUSPICIOUS_TXID),
        is_suspicious_timing(transaction), W_SUSPICIOUS_TIMING)

\* rule_based_checks that returns the sum as it is
rule_based_checks_unclamped(transaction) ==
  [raise |-> RuleChecksRaise(transaction),
   violations |-> RuleViolations(transaction),
   score |-> RuleSum(transaction)]

rule_based_checks(transaction) ==
  [raise |-> RuleChecksRaise(transaction),
   violations |-> RuleViolations(transaction),
   score |-> FMin(RuleSum(transaction), FOne)]

(***************************************************************************)
(* The inputs of the fraud detector: the transaction dict the verify       *)
(* handler builds and the rows of the verification history.                *)
(***************************************************************************)
MaxHistory == 11

TX_SEQUENTIAL == <<"1", "2", "3", "4", "5", "6", "7", "8", "9">>
TX_REPEATED == <<"A", "A", "B", "B", "C", "C", "D", "D">>
TX_SHORT == <<"T", "X", "1">>
TX_TWO_CHARS == <<"A", "B", "A", "B", "A", "B", "A", "B">>
TX_DENYLISTED == <<"f", "a", "k", "e", "A", "1", "B", "2", "C", "3">>

TS_NOON == <<"2", "0", "2", "4", "-", "0", "1", "-", "1", "5", "T",
             "1", "2", ":", "0", "0", ":", "0", "0">>
TS_NIGHT == <<"2", "0", "2", "4", "-", "0", "1", "-", "1", "5", "T",
              "0", "3", ":", "3", "0", ":", "0", "0">>
TS_NOON_ZULU == TS_NOON \o <<"Z">>
TS_DATE_ONLY == <<"2", "0", "2", "4", "-", "0", "1", "-", "1", "5">>
TS_GARBAGE == <<"n", "o", "t", "-", "a", "-", "d", "a", "t", "e">>
TS_LATE == <<"2", "0", "2", "4", "-", "0", "1", "-", "1", "5", "T",
             "2", "3", ":", "5", "9", ":", "5", "9">>
TS_PREVIOUS_DAY == <<"2", "0", "2", "4", "-", "0", "1", "-", "1", "4", "T",
                     "1", "2", ":", "0", "0", ":", "0", "0">>
TS_LONG_AGO == <<"2", "0", "2", "3", "-", "1", "2", "-", "3", "1", "T",
                 "2", "3", ":", "5", "9", ":", "5", "9">>
\* the instants datetime.now() returns in the model
NOW_NOON == <<"2", "0", "2", "4", "-", "0", "1", "-", "1", "5", "T",
                   "1", "2", ":", "0", "0", ":", "0", "0">>
NOW_NOON_PAST == <<"2", "0", "2", "4", "-", "0", "1", "-", "1", "5", "T",
                  "1", "2", ":", "0", "0", ":", "0", "1">>
Clock == {NOW_NOON, NOW_NOON_PAST}

PaymentData(txid, sender, amount, ts) ==
  [txid |-> txid, sender_number |-> sender, amount |-> amount, timestamp |-> ts]
NoPaymentData == PaymentData(AbsentV, AbsentV, AbsentV, AbsentV)

Transaction(txid, phone_number, amount, kind, payment_data) ==
  [txid |-> txid, phone |-> phone_number, amount |-> amount,
   payment_data_kind |-> kind, payment_data |-> payment_data]

\* the matched payment of the model, with a timestamp and an amount
Matched(ts) == PaymentData(Str(TX_STORED), Str(PHONE_INTL), Num(5000), ts)

TransactionSet ==
  { Transaction(Str(TX_STORED), Str(PHONE_LOCAL), Num(5000), "dict", Matched(Str(TS_NOON))),
    Transaction(Str(TX_STORED), Str(PHONE_LOCAL), Num(6000), "dict", Matched(Str(TS_NOON_ZULU))),
    Transaction(Str(TX_STORED), Str(PHONE_LOCAL), Num(6001), "dict", Matched(AbsentV)),
    Transaction(Str(TX_STORED), Str(PHONE_LOCAL), Num(3999), "dict", Matched(NoneV)),
    Transaction(Str(TX_ONE_EDIT), Str(PHONE_LOCAL), Num(5000), "dict", Matched(Str(TS_LATE))),
    Transaction(Str(TX_STORED), Str(PHONE_OTHER), Num(5000), "dict", Matched(Str(TS_GARBAGE))),
    Transaction(Str(TX_STORED), Str(PHONE_INTL), Num(5000), "dict", Matched(Str(TS_NIGHT))),
    Transaction(Str(TX_STORED), Str(PHONE_INTL), AbsentV, "dict", Matched(Str(TS_DATE_ONLY))),
    Transaction(Str(TX_SEQUENTIAL), Str(PHONE_LOCAL), Num(5000), "dict",
                PaymentData(Str(TX_SEQUENTIAL), Str(PHONE_LOCAL), Num(5000), Num(1705320000))),
    Transaction(Str(TX_SEQUENTIAL), Str(PHONE_OTHER), Num(9000), "dict", Matched(Str(TS_NIGHT))),
    Transaction(Str(TX_ONE_EDIT), Str(PHONE_OTHER), Num(100), "dict", Matched(Str(TS_NOON))),
    Transaction(Str(TX_REPEATED), Str(PHONE_LOCAL), Num(5000), "dict",
                PaymentData(Str(TX_REPEATED), AbsentV, AbsentV, AbsentV)),
    Transaction(Str(TX_SHORT), Str(PHONE_LOCAL), Num(-5000), "dict", Matched(Str(TS_NOON))),
    Transaction(NoneV, AbsentV, AbsentV, "dict", NoPaymentData),
    Transaction(Str(TX_STORED), Str(PHONE_LOCAL), Num(5000), "absent", NoPaymentData),
    Transaction(Str(TX_STORED), Str(PHONE_LOCAL), Num(5000), "none", NoPaymentData),
    Transaction(Str(TX_STORED), NoneV, Num(5000), "dict", Matched(Str(TS_NOON))),
    Transaction(Str(TX_STORED), Str(PHONE_LOCAL), NoneV, "dict", Matched(Str(TS_NOON))),
    Transaction(Str(TX_STORED), Str(PHONE_LOCAL), Num(5000), "dict",
                PaymentData(Str(TX_STORED), NoneV, NoneV, Str(TS_NOON))),
    Transaction(Str(TX_STORED), Str(PHONE_INTL), Num(5000), "dict", Matched(Str(TS_NOON))),
    Transaction(Str(TX_STORED), Str(PHONE_OTHER), Num(5000), "dict", Matched(Str(TS_NOON))),
    Transaction(Str(TX_STORED), Str(PHONE_INTL), Num(5000), "dict",
                PaymentData(Str(TX_STORED), Str(PHONE_INTL), Num(10000), Str(TS_NOON))),
    Transaction(Str(TX_SEQUENTIAL), Str(PHONE_INTL), Num(9000), "dict", Matched(Str(TS_NIGHT))),
    Transaction(Str(TX_SEQUENTIAL), Str(PHONE_INTL), Num(5000), "dict",
                PaymentData(Str(TX_SEQUENTIAL), Str(PHONE_INTL), Num(5000), Str(TS_NIGHT))),
    Transaction(Str(TX_TWO_CHARS), Str(PHONE_INTL), Num(5000), "dict",
                PaymentData(Str(TX_TWO_CHARS), Str(PHONE_INTL), Num(5000), Str(TS_NOON))),
    Transaction(Str(TX_DENYLISTED), Str(PHONE_INTL), Num(5000), "dict",
                PaymentData(Str(TX_DENYLISTED), Str(PHONE_INTL), Num(5000), Str(TS_NOON))) }

HistoryRow(txid, created_at) == [txid |-> txid, created_at |-> created_at]

\* the rows of the model, oldest first: an old verification of the stored
\* txid, one stamped in UTC with a Z, and one of the last 24 hours
HistoryKinds ==
  << HistoryRow(Str(TX_STORED), Str(TS_LONG_AGO)),
     HistoryRow(AbsentV, Str(TS_NOON_ZULU)),
     HistoryRow(Str(TX_SEQUENTIAL), Str(TS_PREVIOUS_DAY)) >>

\* rows whose created_at is no timestamp: the key missing, null, a number,
\* a string that is no ISO date
MalformedRows ==
  << HistoryRow(Str(TX_ONE_EDIT), AbsentV),
     HistoryRow(Str(TX_ONE_EDIT), NoneV),
     HistoryRow(Str(TX_ONE_EDIT), Num(1705320000)),
     HistoryRow(Str(TX_ONE_EDIT), Str(TS_GARBAGE)) >>

AllRows == HistoryKinds \o MalformedRows

\* is_recent_transaction and rule_based_checks on the inputs of the model,
\* computed once
RecentMemo ==
  [k \in 1..Len(AllRows), wall_clock \in Clock |->
     is_recent_transaction(AllRows[k], 24, wall_clock)]
RecentOf(tx, hours, wall_clock) ==
  RecentMemo[CHOOSE k \in 1..Len(AllRows) : AllRows[k] = tx, wall_clock]

RulesMemo == [transaction \in TransactionSet |-> rule_based_checks(transaction)]
RulesOf(transaction) == RulesMemo[transaction]

VelocityScore(recent_transactions) ==
  IF recent_transactions > 10 THEN FAdd(FZero, Tenths(3))
  ELSE IF recent_transactions > 5 THEN FAdd(FZero, Tenths(2))
  ELSE FZero

behavioral_analysis(transaction, history, wall_clock) ==
  IF history = <<>> THEN Tenths(3)
  ELSE FMin(AddIf(VelocityScore(Cardinality({i \in 1..Len(history) :
                      RecentOf(history[i], 24, wall_clock)})),
                  \E i \in 1..Len(history) :
                    Get(history[i].txid, Str(<<>>)) = GetOrNone(transaction.txid),
                  Tenths(4)),
            FOne)

\* the tiers cut at the thresholds of FraudDetector.detect_fraud
RiskLevel_lightweight(final_score) ==
  IF FGe(final_score, Tenths(8)) THEN "HIGH"
  ELSE IF FGe(final_score, Tenths(5)) THEN "MEDIUM"
  ELSE IF FGe(final_score, Tenths(3)) THEN "LOW"
  ELSE "MINIMAL"

RiskLevel(final_score) ==
  IF FGe(final_score, Tenths(8)) THEN "HIGH"
  ELSE IF FGe(final_score, Tenths(6)) THEN "MEDIUM"
  ELSE IF FGe(final_score, Tenths(4)) THEN "LOW"
  ELSE "MINIMAL"

get_recommendation(score, risk_level) ==
  IF risk_level = "HIGH" THEN "REJECT - High fraud risk. Manual review required."
  ELSE IF risk_level = "MEDIUM"
  THEN "REVIEW - Medium fraud risk. Additional verification recommended."
  ELSE IF risk_level = "LOW"
  THEN "APPROVE - Low fraud risk. Transaction appears legitimate."
  ELSE "APPROVE - Minimal fraud risk. Safe to process."

NoFraudResult ==
  [kind |-> "none", exc |-> "", fraud_score |-> FZero, risk_level |-> "",
   rule_violations |-> <<>>, behavioral_score |-> FZero, rules |-> FZero,
   recommendation |-> ""]

FraudReport(rules, behavioral_score, final_score) ==
  [kind |-> "ok", exc |-> "", fraud_score |-> final_score,
   risk_level |-> RiskLevel(final_score),
   rule_violations |-> rules.violations,
   behavioral_score |-> behavioral_score, rules |-> rules.score,
   recommendation |-> get_recommendation(final_score, RiskLevel(final_score))]

\* the two component scores added without their weights
Combine_unweighted(rules, behavioral_score) ==
  FraudReport(rules, behavioral_score, FAdd(rules.score, behavioral_score))

Combine(rules, behavioral_score) ==
  FraudReport(rules, behavioral_score,
              FAdd(FMul(rules.score, Tenths(7)), FMul(behavioral_score, Tenths(3))))

DetectWith(rules, transaction, history, wall_clock) ==
  IF rules.raise # "" THEN [NoFraudResult EXCEPT !.kind = "raise", !.exc = rules.raise]
  ELSE Combine(rules, behavioral_analysis(transaction, history, wall_clock))

\* SimpleFraudDetector.detect_fraud(transaction, payment_history) when
\* datetime.now() is wall_clock
detect_fraud(transaction, history, wall_clock) ==
  DetectWith(RulesOf(transaction), transaction, history, wall_clock)

(***************************************************************************)
(* Python's re on the patterns of the parsers.  A pattern is a sequence of *)
(* nodes.  The matcher keeps the list of the ways the nodes read so far    *)
(* can have matched (threads), in the order in which the backtracking      *)
(* matcher of re would try them: starts from the left, greedy repetitions  *)
(* with the longest run first, lazy ones with the shortest, alternatives   *)
(* in their order.  The first thread that survives all nodes is the match  *)
(* re returns.                                                             *)
(***************************************************************************)
\* a string literal as the sequence of its characters
Chars(str) == [i \in 1..Len(str) |-> SubSeq(str, i, i)]

UpperChar(c) ==
  IF \E i \in 1..Len(LowerCase) : LowerCase[i] = c
  THEN UpperCase[CHOOSE i \in 1..Len(LowerCase) : LowerCase[i] = c]
  ELSE c

\* str.upper()
Upper(s) == [i \in 1..Len(s) |-> UpperChar(s[i])]

WhiteSpace == {" ", "\t", "\n", "\r", "\f"}
Letters == {UpperCase[i] : i \in 1..Len(UpperCase)} \cup {LowerCase[i] : i \in 1..Len(LowerCase)}
AlNum == Letters \cup Digits
WordChars == AlNum \cup {"_"}

\* str.strip()
RECURSIVE Strip(_)
Strip(s) ==
  IF s = <<>> THEN s
  ELSE IF Head(s) \in WhiteSpace THEN Strip(Tail(s))
  ELSE IF s[Len(s)] \in WhiteSpace THEN Strip(SubSeq(s, 1, Len(s) - 1))
  ELSE s

ReNode(t, neg, cs, kids, lo, hi, greedy, g) ==
  [t |-> t, neg |-> neg, cs |-> cs, kids |-> kids, lo |-> lo, hi |-> hi,
   greedy |-> greedy, g |-> g]

\* [...] and [^...]
In(cs) == ReNode("cls", FALSE, cs, <<>>, 0, 0, TRUE, 0)
NotIn(cs) == ReNode("cls", TRUE, cs, <<>>, 0, 0, TRUE, 0)
\* . under re.DOTALL
AnyChar == NotIn({})
\* x{lo,hi}, hi = -1 for no upper limit, and its lazy form x{lo,hi}?
Rep(kids, lo, hi) == ReNode("rep", FALSE, {}, kids, lo, hi, TRUE, 0)
Lazy(kids, lo, hi) == ReNode("rep", FALSE, {}, kids, lo, hi, FALSE, 0)
Star(kids) == Rep(kids, 0, -1)
Plus(kids) == Rep(kids, 1, -1)
Opt(kids) == Rep(kids, 0, 1)
\* a|b|c: the alternatives in their order
Alt(alts) == ReNode("alt", FALSE, {}, alts, 0, 0, TRUE, 0)
\* (...) as group g
Group(g, kids) ==
  <<ReNode("open", FALSE, {}, <<>>, 0, 0, TRUE, g)>> \o kids
    \o <<ReNode("close", FALSE, {}, <<>>, 0, 0, TRUE, g)>>
WordBoundary == ReNode("wordb", FALSE, {}, <<>>, 0, 0, TRUE, 0)
StartOfText == ReNode("start", FALSE, {}, <<>>, 0, 0, TRUE, 0)
EndOfText == ReNode("end", FALSE, {}, <<>>, 0, 0, TRUE, 0)
\* literal text under re.IGNORECASE
Lit(str) == <<ReNode("lit", FALSE, {}, Lower(Chars(str)), 0, 0, TRUE, 0)>>

ReGroups == 1..5
NoCaps == [g \in ReGroups |-> <<0, 0>>]
NoMatch == [ok |-> FALSE, from |-> 0, to |-> 0, caps |-> NoCaps]

\* a thread: the match started at from, has read up to pos - 1, and group g
\* spans caps[g][1] .. caps[g][2] - 1
Thread(from, pos) == [from |-> from, pos |-> pos, caps |-> NoCaps]

IsWordAt(s, i) == i >= 1 /\ i <= Len(s) /\ s[i] \in WordChars
InClass(c, n) == (c \in n.cs) # n.neg

\* how many characters from position i on are in the class of node n, up to limit
RunStop(stops, limit) ==
  IF stops = {} THEN limit ELSE (CHOOSE j \in stops : \A j2 \in stops : j <= j2)
RunLength(s, n, i, limit) ==
  RunStop({k \in 0..(limit - 1) : ~InClass(s[i + k], n)}, limit)
RunLimit(s, n, i) ==
  IF n.hi < 0 \/ n.hi > Len(s) - i + 1 THEN Len(s) - i + 1 ELSE n.hi

\* c{lo,hi} for a character class c: the thread goes on after every run of
\* lo..run characters, the longest first (lazy: the shortest first)
RunThreads(n, t, run) ==
  [r \in 1..(run - n.lo + 1) |->
     [t EXCEPT !.pos = IF n.greedy THEN t.pos + run - r + 1 ELSE t.pos + n.lo + r - 1]]

Again(n) ==
  [n EXCEPT !.lo = IF n.lo > 0 THEN n.lo - 1 ELSE 0,
            !.hi = IF n.hi > 0 THEN n.hi - 1 ELSE n.hi]

RECURSIVE Threads(_, _, _)
RECURSIVE Each(_, _, _, _, _)
RECURSIVE RepThreads(_, _, _)
RECURSIVE AltThreads(_, _, _, _)

\* x{lo,hi}: once more (and then again), or stop here
Repeated(n, t, more) ==
  IF n.lo > 0 THEN more
  ELSE IF n.greedy THEN more \o <<t>>
  ELSE <<t>> \o more

RepThreads(s, n, t) ==
  IF n.hi = 0 THEN <<t>>
  ELSE Repeated(n, t, Threads(s, n.kids \o <<Again(n)>>, <<t>>))

AltThreads(s, alts, k, t) ==
  IF k > Len(alts) THEN <<>>
  ELSE Threads(s, alts[k], <<t>>) \o AltThreads(s, alts, k + 1, t)

\* the threads that thread t becomes by reading node n
Succ(s, n, t) ==
  CASE n.t = "cls" ->
         IF t.pos <= Len(s) /\ InClass(s[t.pos], n)
         THEN <<[t EXCEPT !.pos = @ + 1]>>
         ELSE <<>>
    [] n.t = "lit" ->
         IF t.pos + Len(n.kids) - 1 <= Len(s)
            /\ Lower(SubSeq(s, t.pos, t.pos + Len(n.kids) - 1)) = n.kids
         THEN <<[t EXCEPT !.pos = @ + Len(n.kids)]>>
         ELSE <<>>
    [] n.t = "rep" ->
         IF Len(n.kids) = 1 /\ n.kids[1].t = "cls"
         THEN RunThreads(n, t, RunLength(s, n.kids[1], t.pos, RunLimit(s, n, t.pos)))
         ELSE RepThreads(s, n, t)
    [] n.t = "alt" -> AltThreads(s, n.kids, 1, t)
    [] n.t = "open" -> <<[t EXCEPT !.caps[n.g] = <<t.pos, 0>>]>>
    [] n.t = "close" -> <<[t EXCEPT !.caps[n.g] = <<@[1], t.pos>>]>>
    [] n.t = "wordb" ->
         IF IsWordAt(s, t.pos - 1) # IsWordAt(s, t.pos) THEN <<t>> ELSE <<>>
    [] n.t = "start" -> IF t.pos = 1 THEN <<t>> ELSE <<>>
    [] n.t = "end" -> IF t.pos = Len(s) + 1 THEN <<t>> ELSE <<>>

\* the threads of ts[a..b] after node n, in their order
Each(s, n, ts, a, b) ==
  IF a > b THEN <<>>
  ELSE IF a = b THEN Succ(s, n, ts[a])
  ELSE Each(s, n, ts, a, (a + b) \div 2) \o Each(s, n, ts, (a + b) \div 2 + 1, b)

\* the threads ts after the nodes of todo
Threads(s, todo, ts) ==
  IF todo = <<>> \/ ts = <<>> THEN ts
  ELSE Threads(s, Tail(todo), Each(s, Head(todo), ts, 1, Len(ts)))

FirstOf(ts) ==
  IF ts = <<>> THEN NoMatch
  ELSE [ok |-> TRUE, from |-> ts[1].from, to |-> ts[1].pos, caps |-> ts[1].caps]

\* the leftmost match that starts at position i or later
SearchFrom(s, pattern, i) ==
  FirstOf(Threads(s, pattern, [j \in 1..(Len(s) + 2 - i) |-> Thread(i + j - 1, i + j - 1)]))

\* re.search(pattern, s) and re.match(pattern, s)
re_search(pattern, s) == SearchFrom(s, pattern, 1)
re_match(pattern, s) == FirstOf(Threads(s, pattern, <<Thread(1, 1)>>))
\* match.group(g)
GroupOf(m, s, g) == SubSeq(s, m.caps[g][1], m.caps[g][2] - 1)

RECURSIVE FindAllFrom(_, _, _)
FindAllNext(s, pattern, m) ==
  IF ~m.ok THEN <<>>
  ELSE <<GroupOf(m, s, 1)>>
         \o FindAllFrom(s, pattern, IF m.to > m.from THEN m.to ELSE m.to + 1)
FindAllFrom(s, pattern, i) == FindAllNext(s, pattern, SearchFrom(s, pattern, i))

\* re.findall(pattern, s) for a pattern with one group
re_findall(pattern, s) == FindAllFrom(s, pattern, 1)

(***************************************************************************)
(* ml_models/sms_parser.py                                                 *)
(***************************************************************************)
Spaces == <<Star(<<In(WhiteSpace)>>)>>
OneSpace == <<Opt(<<In(WhiteSpace)>>)>>
SomeSpaces == <<Plus(<<In(WhiteSpace)>>)>>
\* [A-Z0-9]+ under re.IGNORECASE
Token == <<Plus(<<In(AlNum)>>)>>
\* [\d,]+\.?\d*
LooseNumber == <<Plus(<<In(Digits \cup {","})>>), Opt(<<In({"."})>>), Star(<<In(Digits)>>)>>
\* \d+(?:,\d{3})*
GroupedDigits == <<Plus(<<In(Digits)>>), Star(<<In({","}), Rep(<<In(Digits)>>, 3, 3)>>)>>
\* (?:\.\d{2})?
TwoDecimals == <<Opt(<<In({"."}), Rep(<<In(Digits)>>, 2, 2)>>)>>
\* \+?250\d{9}
Rwanda250 == <<Opt(<<In({"+"})>>)>> \o Lit("250") \o <<Rep(<<In(Digits)>>, 9, 9)>>

\* self.patterns['mtn_payment']
patterns_mtn_payment ==
  << Lit("Transaction ID:") \o Spaces \o Group(1, Token),
     Lit("Ref.") \o Spaces \o Group(1, Token),
     Lit("Reference:") \o Spaces \o Group(1, Token),
     Lit("TxnID:") \o Spaces \o Group(1, Token),
     <<Alt(<<Lit("Ref"), Lit("Reference"), Lit("No")>>)>> \o OneSpace
       \o <<Opt(<<In({":", "."})>>)>> \o OneSpace
       \o Group(1, <<Rep(<<In(AlNum)>>, 6, 15)>>) >>

\* received\s+(?:RWF\s*)?(\d+(?:,\d{3})*) and its two translations
AmountAfter(verb) ==
  Lit(verb) \o SomeSpaces \o <<Opt(Lit("RWF") \o Spaces)>> \o Group(1, GroupedDigits)

\* self.patterns['amount']
patterns_amount ==
  << Lit("RWF") \o Spaces \o Group(1, LooseNumber),
     Group(1, <<Rep(<<In(Digits)>>, 1, 3), Star(<<In({","}), Rep(<<In(Digits)>>, 3, 3)>>)>>
                \o TwoDecimals) \o Spaces \o Lit("RWF"),
     Lit("Amount:") \o Spaces \o Lit("RWF") \o Spaces \o Group(1, LooseNumber),
     Group(1, GroupedDigits) \o Spaces \o Lit("Rwf"),
     AmountAfter("received"),
     AmountAfter("recu"),
     AmountAfter("wakiriye") >>

\* self.patterns['phone']
patterns_phone ==
  << Group(1, Rwanda250),
     Group(1, Lit("0") \o <<Rep(<<In(Digits)>>, 9, 9)>>),
     Group(1, <<Rep(<<In(Digits)>>, 9, 9)>>),
     Lit("to") \o Spaces \o Group(1, Rwanda250),
     Lit("from") \o Spaces \o Group(1, Rwanda250),
     Lit("kuva") \o Spaces \o Group(1, Rwanda250),
     Lit("de") \o Spaces \o Group(1, Rwanda250) >>

\* a parsed amount: a float, or None
Float(x) == [k |-> "float", x |-> x]
NoFloat == [k |-> "none", x |-> FZero]

\* float of the integer written with the digits
RECURSIVE BFromDigits(_, _, _)
BFromDigits(digits, i, acc) ==
  IF i > Len(digits) THEN acc
  ELSE BFromDigits(digits, i + 1,
                   BNorm(BAdd(BMulSmall(acc, 10), BFromNat(DigitValue(digits[i])))))
WholeFloat(digits) == RoundPack(0, BFromDigits(digits, 1, <<>>), 0, FALSE)
PowerOfTen(n) == WholeFloat(<<"1">> \o [i \in 1..n |-> "0"])

\* the position of the first "." of s, Len(s) + 1 if there is none
RECURSIVE DotAt(_, _)
DotAt(s, i) == IF i > Len(s) \/ s[i] = "." THEN i ELSE DotAt(s, i + 1)

\* float(s) for digits with at most one ".": the double nearest to the
\* decimal; ValueError (None here) for anything else
ParseFloat(s) ==
  LET dot    == DotAt(s, 1)
      digits == Keep(s, Digits)
  IN  IF digits = <<>> \/ Len(digits) < Len(s) - (IF dot <= Len(s) THEN 1 ELSE 0)
      THEN NoFloat
      ELSE Float(FDiv(WholeFloat(digits),
                      PowerOfTen(IF dot <= Len(s) THEN Len(s) - dot ELSE 0)))

\* re.sub(r'[...]', '', s): s without the characters of chars
RECURSIVE Drop(_, _)
Drop(s, chars) ==
  IF s = <<>> THEN <<>>
  ELSE (IF Head(s) \in chars THEN <<>> ELSE <<Head(s)>>) \o Drop(Tail(s), chars)

\* SMSParser.clean_amount
clean_amount(amount_str) ==
  IF amount_str = <<>> THEN NoFloat
  ELSE ParseFloat(Drop(amount_str, {","} \cup WhiteSpace))

\* keyword in text
Within(sub, s) ==
  \E i \in 1..(Len(s) - Len(sub) + 1) : SubSeq(s, i, i + Len(sub) - 1) = sub

RECURSIVE extract_txid_from(_, _)
TxidOf(text, k, m) ==
  IF m.ok /\ Len(Strip(GroupOf(m, text, 1))) >= 6
  THEN Str(Upper(Strip(GroupOf(m, text, 1))))
  ELSE extract_txid_from(text, k + 1)
extract_txid_from(text, k) ==
  IF k > Len(patterns_mtn_payment) THEN NoneV
  ELSE TxidOf(text, k, re_search(patterns_mtn_payment[k], text))

\* SMSParser.extract_txid
extract_txid(text) == extract_txid_from(text, 1)

RECURSIVE extract_amount_from(_, _)
CleanedGroup(m, text) == IF m.ok THEN clean_amount(GroupOf(m, text, 1)) ELSE NoFloat
AmountOf(text, k, amount) ==
  IF amount.k = "float" /\ FGt(amount.x, FZero) THEN amount
  ELSE extract_amount_from(text, k + 1)
extract_amount_from(text, k) ==
  IF k > Len(patterns_amount) THEN NoFloat
  ELSE AmountOf(text, k, CleanedGroup(re_search(patterns_amount[k], text), text))

\* SMSParser.extract_amount
extract_amount(text) == extract_amount_from(text, 1)

RECURSIVE extract_phone_from(_, _)
PhoneOf(text, k, m) ==
  IF m.ok /\ clean_phone(Str(GroupOf(m, text, 1))) # NoneV
  THEN clean_phone(Str(GroupOf(m, text, 1)))
  ELSE extract_phone_from(text, k + 1)
extract_phone_from(text, k) ==
  IF k > Len(patterns_phone) THEN NoneV
  ELSE PhoneOf(text, k, re_search(patterns_phone[k], text))

\* SMSParser.extract_phone
extract_phone(text) == extract_phone_from(text, 1)

payment_keywords ==
  << Chars("transaction"), Chars("payment"), Chars("transfer"), Chars("rwf"),
     Chars("airtel money"), Chars("mtn mobile money"), Chars("tigo cash"),
     Chars("received"), Chars("recu"), Chars("wakiriye") >>

\* what a parser returns: None (kind "none") or a dict; of the dict the
\* model keeps the amount, the txid, the phone and, for the advanced
\* parser, the stage and its confidence (the confidence of the basic parser
\* depends on the name, which the model leaves out)
NoRecord ==
  [kind |-> "none", amount |-> NoFloat, txid |-> NoneV, phone |-> NoneV,
   parsing_method |-> "", confidence |-> FZero]
Record(amount, txid, phone_number, method, confidence) ==
  [kind |-> "dict", amount |-> amount, txid |-> txid, phone |-> phone_number,
   parsing_method |-> method, confidence |-> confidence]

BasicRecord(txid, amount, phone_number) ==
  IF txid = NoneV \/ amount = NoFloat THEN NoRecord
  ELSE Record(amount, txid, phone_number, "", FZero)

\* SMSParser.parse_sms on sms_text
basic_parse_sms(sms_text) ==
  IF sms_text = <<>> THEN NoRecord
  ELSE IF ~\E k \in 1..Len(payment_keywords) :
             Within(payment_keywords[k], Lower(Strip(sms_text)))
  THEN NoRecord
  ELSE BasicRecord(extract_txid(Strip(sms_text)), extract_amount(Strip(sms_text)),
                   extract_phone(Strip(sms_text)))

(***************************************************************************)
(* ml_models/advanced_sms_parser.py.  The spaCy model en_core_web_sm is    *)
(* not installed with the repository: nlp is None and parse_sms goes from  *)
(* the regex stage to _ml_parse.                                           *)
(***************************************************************************)
\* (\d+(?:,\d{3})*(?:\.\d{2})?)
AmountGroup == Group(1, GroupedDigits \o TwoDecimals)
\* ([^0-9]+) (\+?\d{10,15})
NameAndPhone ==
  Group(2, <<Plus(<<NotIn(Digits)>>)>>) \o Lit(" ")
    \o Group(3, <<Opt(<<In({"+"})>>), Rep(<<In(Digits)>>, 10, 15)>>)
\* .*?
Skip == <<Lazy(<<AnyChar>>, 0, -1)>>
\* (\d{1,2}/\d{1,2}/\d{4} \d{1,2}:\d{2})
DateGroup ==
  Group(4, <<Rep(<<In(Digits)>>, 1, 2), In({"/"}), Rep(<<In(Digits)>>, 1, 2), In({"/"}),
             Rep(<<In(Digits)>>, 4, 4), In({" "}), Rep(<<In(Digits)>>, 1, 2), In({":"}),
             Rep(<<In(Digits)>>, 2, 2)>>)
\* [:\.]? ?(\w+)
RefGroup ==
  <<Opt(<<In({":", "."})>>), Opt(<<In({" "})>>)>> \o Group(5, <<Plus(<<In(WordChars)>>)>>)
\* (?:text)?
Maybe(str) == <<Opt(Lit(str))>>

\* self.momo_patterns, in the order _regex_parse tries them
momo_patterns ==
  << Maybe("you have ") \o Lit("received ") \o Maybe("rwf ") \o AmountGroup
       \o Lit(" from ") \o NameAndPhone \o Skip \o Lit("on ") \o DateGroup \o Skip
       \o Lit("ref") \o RefGroup,
     Maybe("payment of ") \o Maybe("rwf ") \o AmountGroup \o Lit(" received from ")
       \o NameAndPhone \o Skip \o DateGroup \o Skip
       \o <<Alt(<<Lit("reference"), Lit("ref"), Lit("id")>>)>> \o RefGroup,
     Maybe("wakiriye ") \o Maybe("rwf ") \o AmountGroup \o Lit(" kuva ")
       \o Maybe("kwa ") \o NameAndPhone \o Skip \o Lit("ku ") \o DateGroup \o Skip
       \o Lit("ref") \o RefGroup,
     Maybe("kwishyura ") \o Maybe("rwf ") \o AmountGroup \o Lit(" ")
       \o <<Alt(<<Lit("kuva"), Lit("kwa")>>)>> \o Lit(" ") \o NameAndPhone \o Skip
       \o DateGroup \o Skip \o <<Alt(<<Lit("nimero"), Lit("ref")>>)>> \o RefGroup,
     Maybe("vous avez ") \o Lit("reçu ") \o Maybe("rwf ") \o AmountGroup
       \o Lit(" de ") \o NameAndPhone \o Skip \o Lit("le ") \o DateGroup \o Skip
       \o <<Alt(<<Lit("référence"), Lit("ref")>>)>> \o RefGroup,
     Maybe("paiement de ") \o Maybe("rwf ") \o AmountGroup \o Lit(" reçu de ")
       \o NameAndPhone \o Skip \o DateGroup \o Skip
       \o <<Alt(<<Lit("référence"), Lit("ref"), Lit("id")>>)>> \o RefGroup >>

RECURSIVE _regex_parse_from(_, _)
RegexRecord(sms_text, k, m) ==
  IF m.ok
  THEN Record(ParseFloat(Drop(GroupOf(m, sms_text, 1), {","})),
              Str(Strip(GroupOf(m, sms_text, 5))),
              Str(_normalize_phone(GroupOf(m, sms_text, 3))),
              "regex", Tenths(9))
  ELSE _regex_parse_from(sms_text, k + 1)
_regex_parse_from(sms_text, k) ==
  IF k > Len(momo_patterns) THEN NoRecord
  ELSE RegexRecord(sms_text, k, re_search(momo_patterns[k], sms_text))

\* AdvancedSMSParser._regex_parse
_regex_parse(sms_text) == _regex_parse_from(sms_text, 1)

\* the first amount of the list that lies in 100..10000000
RECURSIVE FirstReasonable(_)
FirstReasonableOr(amount, others) ==
  IF FLe(FromInt(100), amount.x) /\ FLe(amount.x, FromInt(10000000)) THEN amount
  ELSE FirstReasonable(others)
FirstReasonable(matches) ==
  IF matches = <<>> THEN NoFloat
  ELSE FirstReasonableOr(ParseFloat(Drop(Head(matches), {","})), Tail(matches))

\* AdvancedSMSParser._extract_amount_fallback
_extract_amount_fallback(text) ==
  FirstReasonable(re_findall(Group(1, GroupedDigits \o TwoDecimals), text))

FirstPhone(phones) ==
  IF phones = <<>> THEN NoneV ELSE Str(_normalize_phone(Head(phones)))

\* AdvancedSMSParser._extract_phone_fallback
_extract_phone_fallback(text) ==
  FirstPhone(re_findall(Group(1, <<Opt(<<In({"+"})>>), Rep(<<In(Digits)>>, 10, 15)>>), text))

\* ^\d+$ and ^\+?\d{10,15}$
OnlyDigits == <<StartOfText, Plus(<<In(Digits)>>), EndOfText>>
PhoneShaped ==
  <<StartOfText, Opt(<<In({"+"})>>), Rep(<<In(Digits)>>, 10, 15), EndOfText>>

RECURSIVE FirstTxid(_)
FirstTxid(matches) ==
  IF matches = <<>> THEN NoneV
  ELSE IF ~re_match(OnlyDigits, Head(matches)).ok
          /\ ~re_match(PhoneShaped, Head(matches)).ok
  THEN Str(Upper(Head(matches)))
  ELSE FirstTxid(Tail(matches))

\* AdvancedSMSParser._extract_txid_fallback
_extract_txid_fallback(text) ==
  FirstTxid(re_findall(<<WordBoundary>> \o Group(1, <<Rep(<<In(AlNum)>>, 8, 20)>>)
                         \o <<WordBoundary>>, text))

MlRecord(amount, phone_number, txid) ==
  Record(amount, txid, phone_number, "ml_fallback",
         IF amount # NoFloat /\ txid # NoneV /\ phone_number # NoneV THEN Tenths(7)
         ELSE IF amount # NoFloat /\ txid # NoneV THEN Tenths(6)
         ELSE Tenths(4))

\* AdvancedSMSParser._ml_parse
_ml_parse(sms_text) ==
  MlRecord(_extract_amount_fallback(sms_text), _extract_phone_fallback(sms_text),
           _extract_txid_fallback(sms_text))

AcceptedOr(result, bar, otherwise) ==
  IF result.kind = "dict" /\ FGt(result.confidence, bar) THEN result ELSE otherwise

\* AdvancedSMSParser.parse_sms
advanced_parse_sms(sms_text) ==
  AcceptedOr(_regex_parse(sms_text), Tenths(8), _ml_parse(sms_text))

(***************************************************************************)
(* The messages the parsers are given                                      *)
(***************************************************************************)
Parsers == {"sms_parser", "advanced_sms_parser"}

\* parse_sms of the named module
parse_sms(parser, sms_text) ==
  IF parser = "sms_parser" THEN basic_parse_sms(sms_text)
  ELSE advanced_parse_sms(sms_text)

\* a message: its text and, when it was written after a template, the amount
\* and the transaction id its sender put in
Sms(text, amount, txid) == [text |-> text, amount |-> amount, txid |-> txid]

AmountTokens == {Chars("5000"), Chars("5500"), Chars("15,000.00")}
RefLabels == {Chars("Ref: "), Chars("Reference: "), Chars("Transaction ID: ")}
TxidTokens == {Chars("TX123456789"), Chars("tx123456789")}
Templates == 1..5

\* the notification formats of TEST_SMS_SAMPLES, and the first of them with
\* the currency after the amount
Written(template, amount, label, txid) ==
  CASE template = 1 ->
         Chars("You have received RWF ") \o amount
           \o Chars(" from John Doe +250788123456 on 15/08/2024 14:30. ") \o label \o txid
    [] template = 2 ->
         Chars("Wakiriye RWF ") \o amount
           \o Chars(" kuva kwa Marie Uwimana +250789654321 ku 15/08/2024 10:15. ")
           \o label \o txid
    [] template = 3 ->
         Chars("Payment of RWF ") \o amount
           \o Chars(" received from Peter Nkusi +250788111222 on 15/08/2024 16:45. ")
           \o label \o txid
    [] template = 4 ->
         Chars("Confirmed: You received RWF ") \o amount
           \o Chars(" from GASANA Claude (250-788-333-444) at 15/08/2024 09:20:15. ")
           \o label \o txid
    [] template = 5 ->
         Chars("You have received ") \o amount
           \o Chars(" RWF from John Doe +250788123456 on 15/08/2024 14:30. ") \o label \o txid

TemplateMessages ==
  { Sms(Written(template, amount, label, txid), amount, txid) :
      template \in Templates, amount \in AmountTokens, label \in RefLabels,
      txid \in TxidTokens }

\* texts that follow no template
OtherMessages ==
  { Sms(Chars(text), <<>>, <<>>) :
      text \in { "", " ", "hello world", "Meet me at 10",
                 "call 0788123456 about order ABCD123456",
                 "You have received RWF 5000", "RWF 5000 Ref: AB12",
                 "You have received RWF 0 from John Doe +250788123456 on 15/08/2024 14:30. Ref: TX123456789" } }

Messages == TemplateMessages \cup OtherMessages

NotParsed ==
  [kind |-> "pending", amount |-> NoFloat, txid |-> NoneV, phone |-> NoneV,
   parsing_method |-> "", confidence |-> FZero]

(***************************************************************************)
(* ml_models/fraud_detector.py: the detector app.py imports, and the one   *)
(* app_enhanced.py falls back to                                           *)
(***************************************************************************)
max_amount_threshold == 500000
suspicious_patterns ==
  <<Chars("test"), Chars("fake"), Chars("fraud"), Chars("scam"), Chars("dummy")>>

HasSuspiciousPattern(text) ==
  \E k \in 1..Len(suspicious_patterns) : Within(suspicious_patterns[k], Lower(text))

\* FraudDetector.is_suspicious_txid
is_suspicious_txid_lightweight(txid) ==
  \/ Len(txid) < 6
  \/ HasSuspiciousPattern(txid)
  \/ Cardinality({txid[i] : i \in 1..Len(txid)}) < 3
  \/ re_match(<<Alt(<<Lit("123"), Lit("ABC"), Lit("TEST"), Lit("FAKE")>>)>>, txid).ok

fake_patterns ==
  << <<StartOfText>> \o Lit("test"), <<StartOfText>> \o Lit("fake"),
     <<StartOfText>> \o Lit("dummy"), Lit("admin"),
     Lit("user") \o <<Plus(<<In(Digits)>>)>> >>

\* FraudDetector.is_suspicious_name
is_suspicious_name(name) ==
  /\ name # <<>>
  /\ \/ HasSuspiciousPattern(name)
     \/ \E k \in 1..Len(fake_patterns) : re_search(fake_patterns[k], Lower(name)).ok

OperatorCodes == {<<"7", "8">>, <<"7", "9">>, <<"7", "2">>, <<"7", "3">>}
\* digits[from:to], 0-based and exclusive as in Python
Slice(digits, from, to) == SubSeq(digits, from + 1, MinInt(to, Len(digits)))

\* FraudDetector.is_valid_phone
ValidDigits(digits) ==
  IF StartsWith(digits, <<"2", "5", "0">>)
  THEN Len(digits) = 12 /\ Slice(digits, 3, 6) \in OperatorCodes
  ELSE IF StartsWith(digits, <<"0">>)
  THEN Len(digits) = 10 /\ Slice(digits, 1, 3) \in OperatorCodes
  ELSE IF Len(digits) = 9
  THEN Slice(digits, 0, 2) \in OperatorCodes
  ELSE FALSE
is_valid_phone(phone) == phone # <<>> /\ ValidDigits(Keep(phone, Digits))

\* FraudDetector.check_duplicate_risk
check_duplicate_risk(txid) == Len(txid) < 8

\* the amount's part of the risk score
AmountRisk(amount) ==
  IF amount.n > max_amount_threshold THEN Tenths(3)
  ELSE IF amount.n <= 0 THEN Tenths(5)
  ELSE FZero

\* FraudDetector.calculate_risk_score on {'txid', 'phone', 'name', 'amount'};
\* comparing an amount of None with a number raises TypeError
calculate_risk_score(txid, phone_number, name, amount) ==
  IF amount.k # "num" THEN Raise("TypeError")
  ELSE Scored(FMin(AddIf(AddIf(AddIf(AddIf(FAdd(FZero, AmountRisk(amount)),
                                           is_suspicious_txid_lightweight(Upper(txid)),
                                           Tenths(4)),
                                     is_suspicious_name(Lower(name)), Tenths(2)),
                               ~is_valid_phone(phone_number), Tenths(2)),
                         check_duplicate_risk(txid), Tenths(6)),
                   FOne))

\* ml_models.fraud_detector.detect_fraud(transaction_data): the risk score
detect_fraud_lightweight(txid, phone_number, name, amount) ==
  calculate_risk_score(txid, phone_number, name, amount)

(***************************************************************************)
(* app.py and app_enhanced.py: the verify handlers and the tables they     *)
(* read and write                                                          *)
(***************************************************************************)
\* the cleaning of the phone in verify_payment of app.py
AppCleanPhone(phone) ==
  LET digits == Keep(phone, Digits)
  IN  IF StartsWith(digits, <<"0">>) THEN <<"2", "5", "0">> \o Tail(digits)
      ELSE IF StartsWith(digits, <<"+", "2", "5", "0">>) THEN Tail(digits)
      ELSE digits

\* normalize_phone_number of app_enhanced.py
normalize_phone_number(phone) ==
  LET cleaned == Keep(phone, DigitsOrPlus)
  IN  IF StartsWith(cleaned, <<"0">>) THEN <<"+", "2", "5", "0">> \o Tail(cleaned)
      ELSE IF StartsWith(cleaned, <<"2", "5", "0">>) THEN <<"+">> \o cleaned
      ELSE IF ~StartsWith(cleaned, <<"+">>) THEN <<"+">> \o cleaned
      ELSE cleaned

\* config.FRAUD_THRESHOLD
FRAUD_THRESHOLD == Tenths(7)

\* app.py: best_match['confidence'] < 0.7
BelowBar(confidence) == FLt(confidence, Tenths(7))
\* the bar of app_enhanced.py set at 0.5
ConfidentMatch_at_half(confidence) == FGe(confidence, Tenths(5))
\* app_enhanced.py: match_result.get('confidence', 0) >= 0.7
ConfidentMatch(confidence) == FGe(confidence, Tenths(7))

\* how the service is deployed: which application runs, and whether the
\* imports of the advanced modules succeeded (ADVANCED_ML)
Deployment(application, advanced_ml) ==
  [app |-> application, ADVANCED_ML |-> advanced_ml]
Deployments ==
  { Deployment("app", FALSE), Deployment("app_enhanced", FALSE),
    Deployment("app_enhanced", TRUE) }

\* the scores ml_models.advanced_fraud_detector.detect_fraud may return
AdvancedScores == {Tenths(2), Tenths(7), Tenths(9)}

\* a row of received_payments
Row(payment, status) == [payment |-> payment, status |-> status]

TX_SECOND == Chars("MT999888777")
StoredKinds ==
  { Payment(Str(TX_STORED), Str(PHONE_INTL), Num(5000), Str(TS_NOON)),
    Payment(Str(TX_SECOND), Str(PHONE_OTHER), Num(10000), Str(TS_LATE)) }
MaxStored == 2

\* the JSON body of a verify request
VerifyRequest(txid, phone_number, name, amount) ==
  [txid |-> txid, phone |-> phone_number, name |-> name, amount |-> amount]
NAME_PLAIN == Chars("John Doe")
VerifyRequests ==
  { VerifyRequest(TX_STORED, PHONE_LOCAL, NAME_PLAIN, Num(5000)),
    VerifyRequest(TX_STORED, PHONE_LOCAL, Chars("Test User"), Num(-1000)),
    VerifyRequest(TX_ONE_EDIT, PHONE_OTHER, NAME_PLAIN, Num(5000)),
    VerifyRequest(TX_ONE_EDIT, PHONE_LOCAL, NAME_PLAIN, NoneV),
    VerifyRequest(TX_STORED, PHONE_LOCAL, <<>>, Num(5000)) }

Requests == {"first", "second"}

\* the local variables of a request in verify_payment; lookup is "matcher"
\* once the matcher has answered and "empty" when there was nothing to match
NoSuggestions == <<>>
Locals(txid, phone_number, name, amount) ==
  [txid |-> txid, phone |-> phone_number, name |-> name, amount |-> amount,
   matched_id |-> 0, match_confidence |-> FZero,
   lookup |-> "", best_confidence |-> FZero, suggestions |-> NoSuggestions,
   fraud_score |-> NoFloat, verification_id |-> 0, verification_status |-> ""]
NoLocals == Locals(<<>>, <<>>, <<>>, NoneV)

\* what the handler answers
NoResponse == [code |-> 0, verified |-> FALSE, suggestions |-> NoSuggestions]
Response(code, verified, suggestions) ==
  [code |-> code, verified |-> verified, suggestions |-> suggestions]

\* a row of payment_verifications
Verification(id, txid, status) ==
  [id |-> id, submitted_txid |-> txid, verification_status |-> status]

\* select('*').eq('txid', txid): the rows with that txid, in table order
RECURSIVE WithTxid(_, _)
WithTxid(rows, txid) ==
  IF rows = <<>> THEN <<>>
  ELSE (IF Head(rows).payment.txid = Str(txid) THEN <<Head(rows)>> ELSE <<>>)
         \o WithTxid(Tail(rows), txid)

\* select('*').eq('status', status)
RECURSIVE WithStatus(_, _)
WithStatus(rows, status) ==
  IF rows = <<>> THEN <<>>
  ELSE (IF Head(rows).status = status THEN <<Head(rows)>> ELSE <<>>)
         \o WithStatus(Tail(rows), status)

\* res.data as the matcher gets it
PaymentsOf(rows) == [i \in 1..Len(rows) |-> rows[i].payment]

\* update({'status': 'verified', ...}).eq('id', id)
MarkVerified(rows, id) ==
  [i \in 1..Len(rows) |->
     IF rows[i].payment.id = id THEN [rows[i] EXCEPT !.status = "verified"] ELSE rows[i]]

\* update({'verification_status': status, ...}).eq('id', id)
SetVerification(rows, id, status) ==
  [i \in 1..Len(rows) |->
     IF rows[i].id = id THEN [rows[i] EXCEPT !.verification_status = status] ELSE rows[i]]

\* validate_request_data(data, ['txid', 'phone', 'name']), not all([txid, phone, name])
MissingField(req) == req.txid = <<>> \/ req.phone = <<>> \/ req.name = <<>>

\* 'suspicious' if fraud_score < 0.9 else 'manual_review', or 'verified'
StatusFor(fraud_score) ==
  IF FGe(fraud_score, FRAUD_THRESHOLD)
  THEN (IF FLt(fraud_score, Tenths(9)) THEN "suspicious" ELSE "manual_review")
  ELSE "verified"

VARIABLES
  claim,         \* the customer's claim: txid, phone, amount
  pool,          \* all_payments: the payment records the caller read from the store
  match_result,  \* what match_transaction returned for (claim, pool), or NoResult
  phone_input,   \* a phone string as it arrives at a normalizer
  normalized,    \* per normalizer, its successive outputs starting from phone_input
  txn,           \* the transaction dict handed to detect_fraud
  history_rows,  \* payment_history: the verification rows read from the store
  last_kind,     \* the index in HistoryKinds of the newest row
  clock,         \* what datetime.now() returns
  fraud_result,  \* what detect_fraud returned, or NoFraudResult
  second_result, \* what a later call with the same arguments returned
  called_at,     \* what datetime.now() returned during the first call
  sms,           \* the message handed to parse_sms, with what its sender wrote
  parsed,        \* per parser, what parse_sms returned for sms.text, or NotParsed
  deployed,      \* the application that runs and its ADVANCED_ML
  received_payments,\* the table received_payments
  payment_verifications,\* the table payment_verifications
  pc,            \* per request, where verify_payment stands
  local,         \* per request, the local variables of verify_payment
  response       \* per request, what verify_payment returned

vars == <<claim, pool, match_result, phone_input, normalized,
          txn, history_rows, last_kind, clock, fraud_result, second_result,
          called_at, sms, parsed, deployed, received_payments, payment_verifications, pc, local, response>>
matcher_vars == <<claim, pool, match_result>>
phone_vars == <<phone_input, normalized>>
fraud_vars ==
  <<txn, history_rows, last_kind, clock, fraud_result, second_result, called_at>>

parser_vars == <<sms, parsed>>
verify_vars == <<deployed, received_payments, payment_verifications, pc, local, response>>

NotNormalized == [f \in Normalizers |-> <<>>]
MatcherIdle ==
  /\ claim = Claim(<<>>, <<>>, NoneV)
  /\ pool = <<>>
  /\ match_result = NoResult
PhoneIdle ==
  /\ phone_input = <<>>
  /\ normalized = NotNormalized
FraudIdle ==
  /\ txn = Transaction(AbsentV, AbsentV, AbsentV, "absent", NoPaymentData)
  /\ history_rows = <<>>
  /\ last_kind = 1
  /\ clock = NOW_NOON
  /\ fraud_result = NoFraudResult
  /\ second_result = NoFraudResult
  /\ called_at = <<>>

ParserIdle ==
  /\ sms = Sms(<<>>, <<>>, <<>>)
  /\ parsed = [parser \in Parsers |-> NotParsed]

VerifyIdle ==
  /\ deployed = Deployment("app", FALSE)
  /\ received_payments = <<>>
  /\ payment_verifications = <<>>
  /\ pc = [r \in Requests |-> "idle"]
  /\ local = [r \in Requests |-> NoLocals]
  /\ response = [r \in Requests |-> NoResponse]

MatcherInit ==
  /\ claim \in ClaimSet
  /\ pool = <<>>
  /\ match_result = NoResult
  /\ PhoneIdle
  /\ FraudIdle
  /\ ParserIdle
  /\ VerifyIdle

\* a payment is ingested and joins the pool the next verification reads
ReceivePayment(p) ==
  /\ Len(pool) < MaxPool
  /\ pool' = Append(pool, [p EXCEPT !.id = Len(pool) + 1])
  /\ match_result' = NoResult
  /\ UNCHANGED <<claim, phone_vars, fraud_vars, parser_vars, verify_vars>>

\* the verify handler calls match_transaction(txid, phone, amount, all_payments)
Match ==
  /\ match_result = NoResult
  /\ match_result' = match_transaction(claim.txid, claim.phone, claim.amount, pool)
  /\ UNCHANGED <<claim, pool, phone_vars, fraud_vars, parser_vars, verify_vars>>

MatcherNext ==
  \/ \E p \in PaymentKinds : ReceivePayment(p)
  \/ Match

MatcherSpec == MatcherInit /\ [][MatcherNext]_vars

PhoneInit ==
  /\ phone_input \in PhoneInputs
  /\ normalized = NotNormalized
  /\ MatcherIdle
  /\ FraudIdle
  /\ ParserIdle
  /\ VerifyIdle

\* what normalizer f is applied to next: the phone, then its own last output
Current(f) ==
  IF normalized[f] = <<>> THEN Str(phone_input) ELSE normalized[f][Len(normalized[f])]

\* match_transaction's clean-up of a phone
ApplyMatcherRule ==
  /\ Len(normalized["matcher"]) < MaxApply
  /\ normalized' = [normalized EXCEPT !["matcher"] =
                      Append(@, Str(MatcherCleanPhone(Current("matcher").s)))]
  /\ UNCHANGED <<phone_input, matcher_vars, fraud_vars, parser_vars, verify_vars>>

ApplyCleanPhone ==
  /\ Len(normalized["clean_phone"]) < MaxApply
  /\ normalized' = [normalized EXCEPT !["clean_phone"] =
                      Append(@, clean_phone(Current("clean_phone")))]
  /\ UNCHANGED <<phone_input, matcher_vars, fraud_vars, parser_vars, verify_vars>>

ApplyNormalizePhone ==
  /\ Len(normalized["_normalize_phone"]) < MaxApply
  /\ normalized' = [normalized EXCEPT !["_normalize_phone"] =
                      Append(@, Str(_normalize_phone(Current("_normalize_phone").s)))]
  /\ UNCHANGED <<phone_input, matcher_vars, fraud_vars, parser_vars, verify_vars>>

PhoneNext ==
  \/ ApplyMatcherRule
  \/ ApplyCleanPhone
  \/ ApplyNormalizePhone

PhoneSpec == PhoneInit /\ [][PhoneNext]_vars

FraudInit ==
  /\ txn \in TransactionSet
  /\ history_rows = <<>>
  /\ last_kind = 1
  /\ clock \in Clock
  /\ fraud_result = NoFraudResult
  /\ second_result = NoFraudResult
  /\ called_at = <<>>
  /\ MatcherIdle
  /\ PhoneIdle
  /\ ParserIdle
  /\ VerifyIdle

\* a verification is logged and is part of the history the next call reads
RecordVerification(k) ==
  /\ Len(history_rows) < MaxHistory
  /\ k >= last_kind
  /\ history_rows' = Append(history_rows, HistoryKinds[k])
  /\ last_kind' = k
  /\ fraud_result' = NoFraudResult
  /\ second_result' = NoFraudResult
  /\ called_at' = <<>>
  /\ UNCHANGED <<txn, clock, matcher_vars, phone_vars, parser_vars, verify_vars>>

\* the verify handler calls detect_fraud(transaction_data, payment_history)
DetectFraud ==
  /\ fraud_result = NoFraudResult
  /\ fraud_result' = detect_fraud(txn, history_rows, clock)
  /\ called_at' = clock
  /\ UNCHANGED <<txn, history_rows, last_kind, clock, second_result,
                 matcher_vars, phone_vars, parser_vars, verify_vars>>

FraudNext ==
  \/ \E k \in 1..Len(HistoryKinds) : RecordVerification(k)
  \/ DetectFraud

FraudSpec == FraudInit /\ [][FraudNext]_vars

(***************************************************************************)
(* A customer whose history grows and whose claim is scored twice, the     *)
(* second time later on the wall clock.                                    *)
(***************************************************************************)
HistoryClaims ==
  { Transaction(Str(TX_STORED), Str(PHONE_LOCAL), Num(5000), "dict", Matched(Str(TS_NOON))),
    Transaction(Str(TX_SEQUENTIAL), Str(PHONE_LOCAL), Num(5000), "dict",
                PaymentData(Str(TX_SEQUENTIAL), Str(PHONE_LOCAL), Num(5000), Num(1705320000))) }

HistoryInit ==
  /\ txn \in HistoryClaims
  /\ history_rows = <<>>
  /\ last_kind = 1
  /\ clock = NOW_NOON
  /\ fraud_result = NoFraudResult
  /\ second_result = NoFraudResult
  /\ called_at = <<>>
  /\ MatcherIdle
  /\ PhoneIdle
  /\ ParserIdle
  /\ VerifyIdle

\* a row without a usable created_at is in the table; the rows of
\* MalformedRows come first and in their order
RecordMalformed(k) ==
  /\ Len(history_rows) < MaxHistory
  /\ history_rows = SubSeq(MalformedRows, 1, k - 1)
  /\ history_rows' = Append(history_rows, MalformedRows[k])
  /\ fraud_result' = NoFraudResult
  /\ second_result' = NoFraudResult
  /\ called_at' = <<>>
  /\ UNCHANGED <<txn, last_kind, clock, matcher_vars, phone_vars, parser_vars, verify_vars>>

\* time passes after a call
Tick ==
  /\ fraud_result # NoFraudResult
  /\ clock = NOW_NOON
  /\ clock' = NOW_NOON_PAST
  /\ UNCHANGED <<txn, history_rows, last_kind, fraud_result, second_result,
                 called_at, matcher_vars, phone_vars, parser_vars, verify_vars>>

\* detect_fraud is called once more with the arguments of the first call
DetectFraudAgain ==
  /\ fraud_result # NoFraudResult
  /\ second_result = NoFraudResult
  /\ second_result' = detect_fraud(txn, history_rows, clock)
  /\ UNCHANGED <<txn, history_rows, last_kind, clock, fraud_result, called_at,
                 matcher_vars, phone_vars, parser_vars, verify_vars>>

HistoryNext ==
  \/ \E k \in 1..Len(MalformedRows) : RecordMalformed(k)
  \/ \E k \in 1..Len(HistoryKinds) : RecordVerification(k)
  \/ DetectFraud
  \/ Tick
  \/ DetectFraudAgain

HistorySpec == HistoryInit /\ [][HistoryNext]_vars

(***************************************************************************)
(* The SMS parsers at work: a message arrives and each parser is asked     *)
(* once what it reads in it.                                               *)
(***************************************************************************)
ParserInit ==
  /\ sms \in Messages
  /\ parsed = [parser \in Parsers |-> NotParsed]
  /\ MatcherIdle
  /\ PhoneIdle
  /\ FraudIdle
  /\ VerifyIdle

\* the ingest handler of app.py calls ml_models.sms_parser.parse_sms
ParseBasic ==
  /\ parsed["sms_parser"] = NotParsed
  /\ parsed' = [parsed EXCEPT !["sms_parser"] = parse_sms("sms_parser", sms.text)]
  /\ UNCHANGED <<sms, matcher_vars, phone_vars, fraud_vars, verify_vars>>

\* the ingest handler of app_enhanced.py calls
\* ml_models.advanced_sms_parser.parse_sms
ParseAdvanced ==
  /\ parsed["advanced_sms_parser"] = NotParsed
  /\ parsed' = [parsed EXCEPT !["advanced_sms_parser"] =
                  parse_sms("advanced_sms_parser", sms.text)]
  /\ UNCHANGED <<sms, matcher_vars, phone_vars, fraud_vars, verify_vars>>

ParserNext ==
  \/ ParseBasic
  \/ ParseAdvanced

ParserSpec == ParserInit /\ [][ParserNext]_vars

(***************************************************************************)
(* Two verify requests served at the same time, and notifications that     *)
(* arrive meanwhile.  A step is what a handler does up to and including    *)
(* its next call of the store.                                             *)
(***************************************************************************)
VerifyInit ==
  /\ deployed \in Deployments
  /\ received_payments = <<>>
  /\ payment_verifications = <<>>
  /\ pc = [r \in Requests |-> "idle"]
  /\ local = [r \in Requests |-> NoLocals]
  /\ response = [r \in Requests |-> NoResponse]
  /\ MatcherIdle
  /\ PhoneIdle
  /\ FraudIdle
  /\ ParserIdle

\* the handler returns
Finish(r, locals, answer) ==
  /\ pc' = [pc EXCEPT ![r] = "done"]
  /\ local' = [local EXCEPT ![r] = locals]
  /\ response' = [response EXCEPT ![r] = answer]

\* the handler goes on
Goto(r, locals, label) ==
  /\ pc' = [pc EXCEPT ![r] = label]
  /\ local' = [local EXCEPT ![r] = locals]
  /\ UNCHANGED response

\* the second request of the model arrives after the first
MayArrive(r) == pc[r] = "idle" /\ (r = "second" => pc["first"] # "idle")

\* receive_sms stores a parsed notification; app_enhanced.py normalizes the
\* sender's number first
Stored(p) ==
  IF deployed.app = "app_enhanced"
  THEN [p EXCEPT !.sender_number = Str(normalize_phone_number(p.sender_number.s)),
                 !.id = Len(received_payments) + 1]
  ELSE [p EXCEPT !.id = Len(received_payments) + 1]

ReceiveSms(p) ==
  /\ Len(received_payments) < MaxStored
  /\ WithTxid(received_payments, p.txid.s) = <<>>
  /\ received_payments' = Append(received_payments, Row(Stored(p), "unverified"))
  /\ UNCHANGED <<deployed, payment_verifications, pc, local, response,
                 matcher_vars, phone_vars, fraud_vars, parser_vars>>

\* app.py: the request is read and the payment with the claimed txid looked up
AppFound(r, locals, found) ==
  IF found = <<>> THEN Goto(r, locals, "fuzzy")
  ELSE Goto(r, [locals EXCEPT !.matched_id = found[1].payment.id, !.lookup = "exact"],
            "matched")

AppFind(r, req) ==
  /\ deployed.app = "app"
  /\ MayArrive(r)
  /\ IF MissingField(req)
     THEN Finish(r, local[r], Response(400, FALSE, NoSuggestions))
     ELSE AppFound(r, Locals(req.txid, AppCleanPhone(req.phone), req.name, req.amount),
                   WithTxid(received_payments, req.txid))
  /\ UNCHANGED <<deployed, received_payments, payment_verifications,
                 matcher_vars, phone_vars, fraud_vars, parser_vars>>

\* what the handler keeps of the matcher's result
Consulted(locals, m) ==
  [locals EXCEPT !.lookup = "matcher", !.best_confidence = m.confidence,
                 !.suggestions = m.suggestions]
Accepted(locals, m) ==
  [Consulted(locals, m) EXCEPT !.matched_id = m.payment.id,
                               !.match_confidence = m.confidence]

\* app.py: no payment has the txid; all payments go to the matcher
AppMatched(r, m) ==
  IF m.kind = "raise" THEN Finish(r, local[r], Response(500, FALSE, NoSuggestions))
  ELSE IF BelowBar(m.confidence)
  THEN Finish(r, Consulted(local[r], m), Response(200, FALSE, m.suggestions))
  ELSE Goto(r, Accepted(local[r], m), "matched")

AppFuzzy(r) ==
  /\ deployed.app = "app"
  /\ pc[r] = "fuzzy"
  /\ AppMatched(r, match_transaction(local[r].txid, local[r].phone, local[r].amount,
                                     PaymentsOf(received_payments)))
  /\ UNCHANGED <<deployed, received_payments, payment_verifications,
                 matcher_vars, phone_vars, fraud_vars, parser_vars>>

\* app.py: the claim is scored and the payment marked as verified
AppScored(r, risk) ==
  IF risk.raise
  THEN /\ Finish(r, local[r], Response(500, FALSE, NoSuggestions))
       /\ UNCHANGED received_payments
  ELSE /\ received_payments' = MarkVerified(received_payments, local[r].matched_id)
       /\ Finish(r, [local[r] EXCEPT !.fraud_score = Float(risk.score)],
                 Response(200, TRUE, NoSuggestions))

AppConfirm(r) ==
  /\ deployed.app = "app"
  /\ pc[r] = "matched"
  /\ AppScored(r, detect_fraud_lightweight(local[r].txid, local[r].phone,
                                           local[r].name, local[r].amount))
  /\ UNCHANGED <<deployed, payment_verifications,
                 matcher_vars, phone_vars, fraud_vars, parser_vars>>

\* app_enhanced.py: the request is read and logged as pending
EnhancedInsert(r, req) ==
  /\ deployed.app = "app_enhanced"
  /\ MayArrive(r)
  /\ IF MissingField(req)
     THEN /\ Finish(r, local[r], Response(400, FALSE, NoSuggestions))
          /\ UNCHANGED payment_verifications
     ELSE /\ payment_verifications' =
               Append(payment_verifications,
                      Verification(Len(payment_verifications) + 1, Strip(req.txid),
                                   "pending"))
          /\ Goto(r, [Locals(Strip(req.txid), normalize_phone_number(req.phone),
                             Strip(req.name), req.amount)
                        EXCEPT !.verification_id = Len(payment_verifications) + 1],
                  "pending")
  /\ UNCHANGED <<deployed, received_payments,
                 matcher_vars, phone_vars, fraud_vars, parser_vars>>

\* app_enhanced.py: the payment with the claimed txid is looked up
EnhancedFound(r, found) ==
  IF found = <<>> THEN Goto(r, local[r], "fuzzy")
  ELSE Goto(r, [local[r] EXCEPT !.matched_id = found[1].payment.id,
                                !.match_confidence = FOne, !.lookup = "exact"],
            "matched")

EnhancedFind(r) ==
  /\ deployed.app = "app_enhanced"
  /\ pc[r] = "pending"
  /\ EnhancedFound(r, WithTxid(received_payments, local[r].txid))
  /\ UNCHANGED <<deployed, received_payments, payment_verifications,
                 matcher_vars, phone_vars, fraud_vars, parser_vars>>

\* app_enhanced.py: the unverified payments, if any, go to the matcher
EnhancedMatched(r, m) ==
  IF m.kind = "raise" THEN Finish(r, local[r], Response(500, FALSE, NoSuggestions))
  ELSE IF ConfidentMatch(m.confidence) THEN Goto(r, Accepted(local[r], m), "matched")
  ELSE Goto(r, Consulted(local[r], m), "unmatched")

EnhancedPool(r, unverified) ==
  IF unverified = <<>> THEN Goto(r, [local[r] EXCEPT !.lookup = "empty"], "unmatched")
  ELSE EnhancedMatched(r, match_transaction(local[r].txid, local[r].phone,
                                            local[r].amount, PaymentsOf(unverified)))

EnhancedFuzzy(r) ==
  /\ deployed.app = "app_enhanced"
  /\ pc[r] = "fuzzy"
  /\ EnhancedPool(r, WithStatus(received_payments, "unverified"))
  /\ UNCHANGED <<deployed, received_payments, payment_verifications,
                 matcher_vars, phone_vars, fraud_vars, parser_vars>>

\* app_enhanced.py: nothing matched; the verification is closed as failed
EnhancedFail(r) ==
  /\ deployed.app = "app_enhanced"
  /\ pc[r] = "unmatched"
  /\ payment_verifications' =
       SetVerification(payment_verifications, local[r].verification_id, "failed")
  /\ Finish(r, local[r], Response(200, FALSE, local[r].suggestions))
  /\ UNCHANGED <<deployed, received_payments,
                 matcher_vars, phone_vars, fraud_vars, parser_vars>>

\* app_enhanced.py: the history is read and detect_fraud(transaction_data,
\* payment_history) called.  After the import fallback detect_fraud is the
\* function of ml_models.fraud_detector, which takes one argument: the call
\* raises TypeError and the handler answers 500.
EnhancedDetect(r) ==
  /\ deployed.app = "app_enhanced"
  /\ pc[r] = "matched"
  /\ IF deployed.ADVANCED_ML
     THEN \E fraud_score \in AdvancedScores :
            Goto(r, [local[r] EXCEPT !.fraud_score = Float(fraud_score),
                                     !.verification_status = StatusFor(fraud_score)],
                 IF StatusFor(fraud_score) = "verified" THEN "verify" ELSE "record")
     ELSE Finish(r, local[r], Response(500, FALSE, NoSuggestions))
  /\ UNCHANGED <<deployed, received_payments, payment_verifications,
                 matcher_vars, phone_vars, fraud_vars, parser_vars>>

\* app_enhanced.py: the score is below the threshold; the payment is marked
EnhancedVerify(r) ==
  /\ deployed.app = "app_enhanced"
  /\ pc[r] = "verify"
  /\ received_payments' = MarkVerified(received_payments, local[r].matched_id)
  /\ Goto(r, local[r], "record")
  /\ UNCHANGED <<deployed, payment_verifications,
                 matcher_vars, phone_vars, fraud_vars, parser_vars>>

\* app_enhanced.py: the verification is closed with its status
EnhancedRecord(r) ==
  /\ deployed.app = "app_enhanced"
  /\ pc[r] = "record"
  /\ payment_verifications' =
       SetVerification(payment_verifications, local[r].verification_id,
                       local[r].verification_status)
  /\ Finish(r, local[r],
            Response(200, local[r].verification_status = "verified", NoSuggestions))
  /\ UNCHANGED <<deployed, received_payments,
                 matcher_vars, phone_vars, fraud_vars, parser_vars>>

VerifyNext ==
  \/ \E p \in StoredKinds : ReceiveSms(p)
  \/ \E r \in Requests, req \in VerifyRequests : AppFind(r, req)
  \/ \E r \in Requests : AppFuzzy(r)
  \/ \E r \in Requests : AppConfirm(r)
  \/ \E r \in Requests, req \in VerifyRequests : EnhancedInsert(r, req)
  \/ \E r \in Requests : EnhancedFind(r)
  \/ \E r \in Requests : EnhancedFuzzy(r)
  \/ \E r \in Requests : EnhancedFail(r)
  \/ \E r \in Requests : EnhancedDetect(r)
  \/ \E r \in Requests : EnhancedVerify(r)
  \/ \E r \in Requests : EnhancedRecord(r)

VerifySpec == VerifyInit /\ [][VerifyNext]_vars

(***************************************************************************)
(* Properties of the Matcher                                               *)
(***************************************************************************)
Returned == match_result.kind = "ok"
PoolIdx == 1..Len(pool)

\* the combined score the model's match_transaction gave pool[i]
Score(i) == ScoreOf(claim.txid, claim.phone, claim.amount, pool[i]).score

\* C1: for a non-empty pool the returned payment is non-null and is the pool
\* element of maximal combined score, the earliest one among those tied
C1_ArgmaxFirstWins ==
  (Returned /\ pool # <<>>) =>
    /\ match_result.payment # NoneV
    /\ \E i \in PoolIdx :
         /\ match_result.payment = pool[i]
         /\ match_result.confidence = Score(i)
         /\ \A j \in PoolIdx : FLe(Score(j), Score(i))
         /\ \A j \in 1..(i - 1) : FLt(Score(j), Score(i))

\* C2: with an empty pool match_transaction returns payment None, the
\* confidence -1 (below every valid confidence) and no suggestions, and
\* does not raise
C2_EmptyPool ==
  (match_result.kind # "none" /\ pool = <<>>) =>
    /\ match_result.kind = "ok"
    /\ match_result.payment = NoneV
    /\ match_result.confidence = FromInt(-1)
    /\ FLt(match_result.confidence, FZero)
    /\ match_result.suggestions = <<>>

C2_Witness == Returned /\ pool = <<>>

\* the score of the claim's formula: the amount similarity whenever the claim
\* supplied an amount (0 included), the neutral 0.5 only when it supplied none
ClaimedAmountSim(c, payment) ==
  IF c.amount.k = "num"
  THEN FSub(FOne,
            FDiv(FAbs(FSub(FromInt(c.amount.n), FromInt(payment.amount.n))),
                 FMax(FMax(FromInt(c.amount.n), FromInt(payment.amount.n)), FOne)))
  ELSE Tenths(5)

ClaimedScore(c, payment) ==
  FAdd(FAdd(FMul(Tenths(6),
                 FSub(FOne,
                      FDiv(FromInt(levenshtein_distance(Lower(c.txid),
                                                        Lower(payment.txid.s))),
                           FromInt(MaxInt(MaxInt(Len(c.txid), Len(payment.txid.s)),
                                          1))))),
            FMul(Tenths(3),
                 IF MatcherCleanPhone(c.phone) = MatcherCleanPhone(payment.sender_number.s)
                 THEN FOne ELSE FZero)),
       FMul(Tenths(1), ClaimedAmountSim(c, payment)))

ClaimedMemo == [c \in ClaimSet, p \in PaymentKinds |-> ClaimedScore(c, p)]

\* C3: every candidate's score is 0.6*txidSim + 0.3*phoneSim + 0.1*amountSim,
\* with amountSim computed from the amounts whenever the claim supplied one
C3_ScoreFormula ==
  Returned =>
    \A i \in PoolIdx : Score(i) = ClaimedMemo[claim, [pool[i] EXCEPT !.id = 0]]

\* the candidate has the claim's txid, normalized phone and amount
Identical(c, payment) ==
  /\ payment.txid = Str(c.txid)
  /\ payment.sender_number.k = "str"
  /\ MatcherCleanPhone(payment.sender_number.s) = MatcherCleanPhone(c.phone)
  /\ c.amount.k = "num"
  /\ payment.amount = c.amount

\* C4: with a candidate identical to the claim in the pool, the confidence
\* returned is exactly 1.0
C4_IdenticalIsOne ==
  (Returned /\ \E i \in PoolIdx : Identical(claim, pool[i])) =>
    match_result.confidence = FOne

\* C5: for a non-empty pool the confidence returned lies in [0,1] and no
\* amount similarity is negative; -1 is returned only for the empty pool
C5_ConfidenceInUnitInterval ==
  (Returned /\ pool # <<>>) =>
    /\ FGe(match_result.confidence, FZero)
    /\ FLe(match_result.confidence, FOne)
    /\ \A i \in PoolIdx : FGe(amount_sim(claim.amount, pool[i]), FZero)

\* the candidates scored above 0.5, and their order in the suggestions:
\* by decreasing score, candidates of equal score in pool order
Suggested == {i \in PoolIdx : FGt(Score(i), Tenths(5))}
Before(i, j) == FGt(Score(i), Score(j)) \/ (Score(i) = Score(j) /\ i < j)
Rank(i) == 1 + Cardinality({j \in Suggested : Before(j, i)})

\* C6: the suggestions are exactly the candidates scored above 0.5, each with
\* its own txid, amount, timestamp and confidence, by non-increasing
\* confidence and pool order among equals, cut to the 3 highest
C6_Suggestions ==
  Returned =>
    /\ Len(match_result.suggestions) = MinInt(3, Cardinality(Suggested))
    /\ \A i \in Suggested :
         Rank(i) <= 3 =>
           match_result.suggestions[Rank(i)] =
             [txid |-> pool[i].txid, amount |-> pool[i].amount,
              timestamp |-> pool[i].timestamp, confidence |-> Score(i)]
    /\ \A k \in 1..Len(match_result.suggestions) :
         FGt(match_result.suggestions[k].confidence, Tenths(5))

\* more candidates above 0.5 than are kept, two of the kept ones tied, and one
\* candidate left out
C6_Witness ==
  /\ Returned
  /\ Cardinality(Suggested) > 3
  /\ Len(match_result.suggestions) = 3
  /\ match_result.suggestions[1].confidence = match_result.suggestions[2].confidence
  /\ match_result.suggestions[1].timestamp # match_result.suggestions[2].timestamp
  /\ FGt(match_result.suggestions[2].confidence, match_result.suggestions[3].confidence)

\* C7: a candidate whose txid, amount or sender phone is missing (absent or
\* null) is still scored, and the call returns instead of raising
C7_MissingFieldsScored ==
  match_result.kind # "none" => match_result.kind = "ok"

(***************************************************************************)
(* Properties of the phone normalizers                                     *)
(***************************************************************************)
\* C8: each normalizer is idempotent: applied to its own output it returns
\* that output again
C8_NormalizeIdempotent ==
  \A f \in Normalizers :
    \A k \in 2..Len(normalized[f]) : normalized[f][k] = normalized[f][1]

\* every normalizer was applied twice to a phone that each of them rewrites
C8_Witness ==
  \A f \in Normalizers :
    /\ Len(normalized[f]) >= 2
    /\ normalized[f][1] # Str(phone_input)
    /\ normalized[f][1].k = "str"

AllDigits(s) == \A i \in 1..Len(s) : IsDigit(s[i])
\* local 0XXXXXXXXX, bare 250XXXXXXXXX, +250XXXXXXXXX, bare 9 digits
IsLocal(p) == Len(p) = 10 /\ AllDigits(p) /\ p[1] = "0"
IsBare250(p) == Len(p) = 12 /\ AllDigits(p) /\ StartsWith(p, <<"2", "5", "0">>)
IsPlus250(p) == Len(p) = 13 /\ p[1] = "+" /\ IsBare250(Tail(p))
IsBare9(p) == Len(p) = 9 /\ AllDigits(p) /\ p[1] # "0"
KnownFormat(p) == IsLocal(p) \/ IsBare250(p) \/ IsPlus250(p) \/ IsBare9(p)

\* C9: for a phone in one of the four formats the Matcher's rule and the
\* Extractor's normalizers produce the same canonical string
C9_MatcherMatchesExtractor ==
  (KnownFormat(phone_input) /\ \A f \in Normalizers : normalized[f] # <<>>) =>
    /\ normalized["matcher"][1] = normalized["clean_phone"][1]
    /\ normalized["matcher"][1] = normalized["_normalize_phone"][1]

(***************************************************************************)
(* Properties of the fraud detector                                        *)
(***************************************************************************)
ClaimedWeight(rule) ==
  CASE rule = "txid_mismatch" -> Tenths(4)
    [] rule = "phone_mismatch" -> Tenths(3)
    [] rule = "amount_mismatch" -> Tenths(5)
    [] rule = "suspicious_txid_pattern" -> Tenths(3)
    [] rule = "suspicious_timing" -> Tenths(2)

RECURSIVE SumOfWeights(_, _)
SumOfWeights(fired, sum) ==
  IF fired = <<>> THEN sum
  ELSE SumOfWeights(Tail(fired), FAdd(sum, ClaimedWeight(Head(fired))))

\* the sum of the weights of the fired rules, clamped to [0,1]
ClaimedRuleScore ==
  FMax(FZero, FMin(SumOfWeights(fraud_result.rule_violations, FZero), FOne))

Fired(rule) ==
  \E i \in 1..Len(fraud_result.rule_violations) : fraud_result.rule_violations[i] = rule

AmountsDifferByMoreThan1000 ==
  /\ txn.amount.k = "num"
  /\ txn.payment_data_kind = "dict"
  /\ LET sms_amount == IF txn.payment_data.amount.k = "num"
                       THEN txn.payment_data.amount.n ELSE 0
     IN  \/ txn.amount.n - sms_amount > 1000
         \/ sms_amount - txn.amount.n > 1000

\* C10: detect_fraud returns fraud_score = 0.7*ruleScore + 0.3*behavioralScore
\* where ruleScore is the sum of the weights of the fired rules (0.4, 0.3,
\* 0.5 for amounts more than 1000 apart, 0.3, 0.2) clamped to [0,1], and the
\* fraud_score returned lies in [0,1]
C10_FraudScore ==
  fraud_result.kind = "ok" =>
    /\ fraud_result.rules = ClaimedRuleScore
    /\ fraud_result.fraud_score =
         FAdd(FMul(Tenths(7), ClaimedRuleScore),
              FMul(Tenths(3), fraud_result.behavioral_score))
    /\ Fired("amount_mismatch") <=> AmountsDifferByMoreThan1000
    /\ FGe(fraud_result.fraud_score, FZero)
    /\ FLe(fraud_result.fraud_score, FOne)

\* every rule fired, so that the sum of the weights is cut to 1, on a
\* customer with a history
C10_Witness ==
  /\ fraud_result.kind = "ok"
  /\ Len(fraud_result.rule_violations) = 5
  /\ FGt(SumOfWeights(fraud_result.rule_violations, FZero), FOne)
  /\ history_rows # <<>>
  /\ FGt(fraud_result.behavioral_score, Tenths(6))

Answered == fraud_result.kind = "ok"
NoHistory == history_rows = <<>>

\* the directive a recommendation text opens with
Directive(text) ==
  CASE text = "REJECT - High fraud risk. Manual review required." -> "REJECT"
    [] text = "REVIEW - Medium fraud risk. Additional verification recommended."
       -> "REVIEW"
    [] text = "APPROVE - Low fraud risk. Transaction appears legitimate." -> "APPROVE"
    [] text = "APPROVE - Minimal fraud risk. Safe to process." -> "APPROVE"
    [] OTHER -> "?"

ClaimedDirective(tier) ==
  CASE tier = "HIGH" -> "REJECT"
    [] tier = "MEDIUM" -> "REVIEW"
    [] tier \in {"LOW", "MINIMAL"} -> "APPROVE"

\* C11: the tier returned is HIGH iff fraud_score >= 0.8, MEDIUM iff
\* 0.6 <= fraud_score < 0.8, LOW iff 0.4 <= fraud_score < 0.6, MINIMAL iff
\* fraud_score < 0.4, and the recommendation is REJECT for HIGH, REVIEW for
\* MEDIUM, APPROVE for LOW and MINIMAL
C11_TierOfScore ==
  Answered =>
    /\ fraud_result.risk_level = "HIGH" <=> FGe(fraud_result.fraud_score, Tenths(8))
    /\ fraud_result.risk_level = "MEDIUM" <=>
         (FGe(fraud_result.fraud_score, Tenths(6)) /\ FLt(fraud_result.fraud_score, Tenths(8)))
    /\ fraud_result.risk_level = "LOW" <=>
         (FGe(fraud_result.fraud_score, Tenths(4)) /\ FLt(fraud_result.fraud_score, Tenths(6)))
    /\ fraud_result.risk_level = "MINIMAL" <=> FLt(fraud_result.fraud_score, Tenths(4))
    /\ Directive(fraud_result.recommendation) = ClaimedDirective(fraud_result.risk_level)

\* a score of the band [0.3, 0.4), which is MINIMAL, has been returned
C11_Witness ==
  /\ Answered
  /\ FGe(fraud_result.fraud_score, Tenths(3))
  /\ FLt(fraud_result.fraud_score, Tenths(4))
  /\ fraud_result.risk_level = "MINIMAL"
  /\ Directive(fraud_result.recommendation) = "APPROVE"

\* txid, phone and amount of the claim are those of its payment_data
ExactMatch ==
  /\ txn.payment_data_kind = "dict"
  /\ txn.txid.k = "str" /\ txn.txid = txn.payment_data.txid
  /\ txn.phone.k = "str" /\ txn.phone = txn.payment_data.sender_number
  /\ txn.amount.k = "num" /\ txn.amount = txn.payment_data.amount

\* C12: a claim whose txid, phone and amount exactly match its payment_data,
\* scored with no history, gets a fraud score strictly below 0.6 and the tier
\* LOW or MINIMAL, whatever the txid and the payment's timestamp
C12_ExactMatchBelowMedium ==
  (ExactMatch /\ NoHistory /\ fraud_result.kind # "none") =>
    /\ Answered
    /\ FLt(fraud_result.fraud_score, Tenths(6))
    /\ fraud_result.risk_level \in {"LOW", "MINIMAL"}

\* an exact match with a sequential txid paid at night: both remaining rules fire
C12_Witness ==
  /\ ExactMatch /\ NoHistory /\ Answered
  /\ fraud_result.rule_violations = <<"suspicious_txid_pattern", "suspicious_timing">>
  /\ fraud_result.risk_level = "LOW"

\* the inputs that are t but for a claim phone that matches the payment's
PhoneTwins(t) ==
  {u \in TransactionSet : /\ u.phone.k = "str"
                          /\ u.phone # t.phone
                          /\ [u EXCEPT !.phone = t.phone] = t
                          /\ ~PhoneMismatch(u)}

\* C13: a claim whose phone differs from the matched payment's sender phone
\* scores strictly higher than the otherwise identical claim whose phone
\* matches, also when other rules fire
C13_PhoneMismatchScoresHigher ==
  (Answered /\ PhoneMismatch(txn)) =>
    \A u \in PhoneTwins(txn) :
      FGt(fraud_result.fraud_score, detect_fraud(u, history_rows, clock).fraud_score)

TxidMatches == txn.payment_data_kind = "dict" /\ txn.txid = txn.payment_data.txid
AmountMatches == txn.payment_data_kind = "dict" /\ txn.amount = txn.payment_data.amount

\* C14: a claim whose amount is more than the tolerance away from the matched
\* payment's while txid and phone match fires amount_mismatch and gets a
\* fraud score of at least 0.6 (MEDIUM or HIGH), with or without history
C14_AmountMismatchAtLeastMedium ==
  (Answered /\ AmountsDifferByMoreThan1000 /\ TxidMatches /\ ~PhoneMismatch(txn)) =>
    /\ Fired("amount_mismatch")
    /\ FGe(fraud_result.fraud_score, Tenths(6))
    /\ fraud_result.risk_level \in {"MEDIUM", "HIGH"}

\* C15: without history, a claim that matches its payment_data in txid and
\* amount gets a fraud_score above 0.5 when its phone differs from the
\* sender's and of at most 0.5 when its phone matches too
C15_TestExpectations ==
  (Answered /\ NoHistory /\ TxidMatches /\ AmountMatches /\ txn.amount.k = "num") =>
    /\ PhoneMismatch(txn) => FGt(fraud_result.fraud_score, Tenths(5))
    /\ ~PhoneMismatch(txn) => FLe(fraud_result.fraud_score, Tenths(5))

\* sub occurs in s
Contains(s, sub) ==
  \E i \in 1..(Len(s) - Len(sub) + 1) : SubSeq(s, i, i + Len(sub) - 1) = sub

DENYLIST ==
  {<<"t", "e", "s", "t">>, <<"f", "a", "k", "e">>, <<"d", "u", "m", "m", "y">>}

\* what the claim calls a suspicious txid
ClaimedSuspicious(s) ==
  \/ Len(s) < 6
  \/ Cardinality({s[i] : i \in 1..Len(s)}) < 3
  \/ \E sub \in DENYLIST : Contains(s, sub)
  \/ \E prefix \in SEQUENTIAL_PREFIXES : StartsWith(s, prefix)

\* C18: a claim txid shorter than 6 characters, or of fewer than 3 distinct
\* characters, or containing test, fake or dummy, or starting with a
\* sequential numeric prefix is reported as suspicious_txid_pattern and its
\* weight 0.3 is part of the rule score
C18_SuspiciousTxid ==
  (Answered /\ txn.txid.k = "str" /\ ClaimedSuspicious(txn.txid.s)) =>
    /\ Fired("suspicious_txid_pattern")
    /\ fraud_result.rules = ClaimedRuleScore

\* C19: a claim with no amount (None, or the key left out) scored against a
\* matched payment returns a verdict, does not raise and does not report
\* amount_mismatch
C19_NoAmountScored ==
  (/\ fraud_result.kind # "none"
   /\ txn.amount.k \in {"none", "absent"}
   /\ txn.payment_data_kind = "dict"
   /\ txn.phone.k = "str"
   /\ txn.payment_data.sender_number.k = "str") =>
    /\ Answered
    /\ ~Fired("amount_mismatch")

\* the moment a history row was created, where created_at reads as one
CreatedAt(row) ==
  IF row.created_at.k = "str" THEN fromisoformat(ReplaceZ(row.created_at.s))
  ELSE NoDateTime

Malformed(row) == ~CreatedAt(row).ok

\* the row was created in the 24 hours up to the call (the rows that carry
\* an offset carry +00:00, and the clock of the server reads UTC)
InLast24Hours(row) ==
  /\ CreatedAt(row).ok
  /\ TotalSeconds(fromisoformat(called_at), CreatedAt(row)) \in 0..(24 * 3600)

RecentCount ==
  Cardinality({i \in 1..Len(history_rows) : InLast24Hours(history_rows[i])})

ClaimedVelocity ==
  IF RecentCount > 10 THEN Tenths(3)
  ELSE IF RecentCount > 5 THEN Tenths(2)
  ELSE FZero

ClaimedReuse ==
  IF \E i \in 1..Len(history_rows) :
       history_rows[i].txid.k = "str" /\ history_rows[i].txid = txn.txid
  THEN Tenths(4)
  ELSE FZero

ClaimedBehavioral ==
  IF NoHistory THEN Tenths(3)
  ELSE FMin(FOne, FAdd(ClaimedVelocity, ClaimedReuse))

\* C16: the behavioral score is 0.3 without history and otherwise
\* min(1, v + d): v is 0.3 for more than 10 rows of the last 24 hours, 0.2
\* for 6 to 10, else 0; d is 0.4 if a row has the claim's txid, else 0
C16_BehavioralScore ==
  Answered => fraud_result.behavioral_score = ClaimedBehavioral

HasMalformed == \E i \in 1..Len(history_rows) : Malformed(history_rows[i])
NoOffsetRows == \A i \in 1..Len(history_rows) : ~CreatedAt(history_rows[i]).aware

\* C17: a row whose created_at is missing, null, no string or no timestamp
\* never makes detect_fraud raise; it is left out of the count of recent
\* rows, and the other rows are counted as without it
C17_MalformedRowsSkipped ==
  (HasMalformed /\ fraud_result.kind # "none") =>
    /\ Answered
    /\ NoOffsetRows => fraud_result.behavioral_score = ClaimedBehavioral

\* the four malformed rows and more than 5 rows of the last day: the
\* velocity part is that of the rows of the last day
C17_Witness ==
  /\ Answered
  /\ \A k \in 1..Len(MalformedRows) :
       \E i \in 1..Len(history_rows) : history_rows[i] = MalformedRows[k]
  /\ NoOffsetRows
  /\ RecentCount > 5
  /\ FGe(fraud_result.behavioral_score, Tenths(2))

\* C20: two calls with the same claim, matched payment and history return
\* the same score, tier and violated rules, whenever each is made
C20_SameInputsSameVerdict ==
  second_result.kind # "none" =>
    /\ second_result.fraud_score = fraud_result.fraud_score
    /\ second_result.risk_level = fraud_result.risk_level
    /\ second_result.rule_violations = fraud_result.rule_violations

(***************************************************************************)
(* Properties that span the Matcher and the Risk Scorer                    *)
(***************************************************************************)
\* the transaction_data the verify handler builds from the claim and a
\* candidate of the pool
ClaimWith(p) ==
  Transaction(Str(claim.txid), Str(claim.phone), claim.amount, "dict",
              PaymentData(p.txid, p.sender_number, p.amount, p.timestamp))

\* match_transaction gave candidate p txid_sim = 1 and phone_sim = 1
MatcherSeesEqual(p) ==
  /\ p.txid.k = "str"
  /\ p.sender_number.k = "str"
  /\ txid_sim(claim.txid, p.txid.s) = FOne
  /\ MatcherCleanPhone(claim.phone) = MatcherCleanPhone(p.sender_number.s)

\* rule_based_checks lists the rule among the violations of transaction t
Violates(t, rule) ==
  \E k \in 1..Len(RuleViolations(t)) : RuleViolations(t)[k] = rule

\* C29: a candidate that match_transaction scored with txid_sim = 1 and
\* phone_sim = 1 fires neither txid_mismatch nor phone_mismatch when the
\* claim is scored with it as payment_data
C29_MatcherAndScorerAgree ==
  Returned =>
    \A i \in PoolIdx :
      MatcherSeesEqual(pool[i]) =>
        /\ ~Violates(ClaimWith(pool[i]), "txid_mismatch")
        /\ ~Violates(ClaimWith(pool[i]), "phone_mismatch")

\* C30: every row of the history whose created_at is a timestamp of the 24
\* hours up to the call, with or without a Z or an offset, is recent for
\* is_recent_transaction(tx, 24), so the velocity check counts it
C30_RecentRowsAreRecent ==
  Answered =>
    \A i \in 1..Len(history_rows) :
      InLast24Hours(history_rows[i]) => RecentOf(history_rows[i], 24, called_at)

(***************************************************************************)
(* Properties of the SMS parsers                                           *)
(***************************************************************************)
Asked(parser) == parsed[parser] # NotParsed

\* the text contains one of the payment-domain keywords
HasKeyword(text) ==
  \E k \in 1..Len(payment_keywords) : Within(payment_keywords[k], Lower(text))

\* C21: parse_sms returns None for the empty string and for every text
\* without a payment-domain keyword, in the basic and in the advanced parser
C21_NoKeywordNoRecord ==
  \A parser \in Parsers :
    Asked(parser) /\ (sms.text = <<>> \/ ~HasKeyword(sms.text))
      => parsed[parser] = NoRecord

\* C22: every record parse_sms returns has a positive amount and a non-empty
\* transaction id; otherwise it returns None
C22_RecordsAreComplete ==
  \A parser \in Parsers :
    Asked(parser) /\ parsed[parser].kind = "dict"
      => /\ parsed[parser].amount.k = "float"
         /\ FGt(parsed[parser].amount.x, FZero)
         /\ parsed[parser].txid.k = "str"
         /\ parsed[parser].txid.s # <<>>

\* the number an amount token stands for
NumericValue(token) ==
  IF token = Chars("15,000.00") THEN FromInt(15000)
  ELSE IF token = Chars("5500") THEN FromInt(5500)
  ELSE FromInt(5000)

FromTemplate == sms \in TemplateMessages

\* C23: for a message written after a supported template, parse_sms returns
\* the numeric value of its amount token (separators removed) and its
\* transaction-id token, the latter up to the case of its letters
C23_TemplateFieldsAreRead ==
  \A parser \in Parsers :
    Asked(parser) /\ FromTemplate
      => /\ parsed[parser].kind = "dict"
         /\ parsed[parser].amount = Float(NumericValue(sms.amount))
         /\ parsed[parser].txid.k = "str"
         /\ Upper(parsed[parser].txid.s) = Upper(sms.txid)

\* C24: the transaction id of every record parse_sms returns is trimmed and
\* upper-cased, whichever stage produced it
C24_TxidIsUpperCased ==
  \A parser \in Parsers :
    Asked(parser) /\ parsed[parser].kind = "dict" /\ parsed[parser].txid.k = "str"
      => parsed[parser].txid.s = Upper(Strip(parsed[parser].txid.s))

(***************************************************************************)
(* Properties of the verify handlers                                       *)
(***************************************************************************)
\* no payment had the claimed txid, and the matcher's best confidence was
\* below 0.7 or there was nothing to match
NoConfidentMatch(locals) ==
  \/ locals.lookup = "empty"
  \/ locals.lookup = "matcher" /\ FLt(locals.best_confidence, Tenths(7))

\* C25: when no payment has the claimed txid and the matcher's best
\* confidence is below 0.7, the request answers verified: false with the
\* matcher's suggestions and none of its steps changes received_payments
C25_NoMatchNoChange ==
  [][\A r \in Requests :
       NoConfidentMatch(local'[r]) =>
         /\ pc'[r] # pc[r] => received_payments' = received_payments
         /\ pc'[r] = "done" => response'[r] = Response(200, FALSE, local'[r].suggestions)]_vars

C25_Witness ==
  \E r \in Requests :
    /\ pc[r] = "done"
    /\ local[r].lookup = "matcher"
    /\ NoConfidentMatch(local[r])
    /\ response[r].suggestions # <<>>
    /\ ~response[r].verified

\* C26: no two requests answer verified: true for the same payment
C26_ConfirmedOnce ==
  \A r1, r2 \in Requests :
    /\ r1 # r2
    /\ pc[r1] = "done" /\ response[r1].verified
    /\ pc[r2] = "done" /\ response[r2].verified
    => local[r1].matched_id # local[r2].matched_id

\* row i goes from unverified to verified in this step
BecomesVerified(i) ==
  /\ i <= Len(received_payments)
  /\ received_payments[i].status = "unverified"
  /\ received_payments'[i].status = "verified"

\* C27: a payment goes from unverified to verified only in a step of a
\* request whose fraud score is below 0.7
C27_VerifiedBelowThreshold ==
  [][\A i \in 1..MaxStored :
       BecomesVerified(i) =>
         \E r \in Requests :
           /\ pc'[r] # pc[r]
           /\ local'[r].matched_id = received_payments[i].payment.id
           /\ local'[r].fraud_score.k = "float"
           /\ FLt(local'[r].fraud_score.x, Tenths(7))]_vars

\* C28: a request of app_enhanced.py that logged a pending verification has
\* closed it as failed, verified, suspicious or manual_review when it ends
C28_PendingIsClosed ==
  \A r \in Requests :
    pc[r] = "done" /\ local[r].verification_id # 0
      => \A k \in 1..Len(payment_verifications) :
           payment_verifications[k].id = local[r].verification_id
             => payment_verifications[k].verification_status
                  \in {"failed", "verified", "suspicious", "manual_review"}
====
